---------------------------- MODULE Spec2Model ----------------------------
(***************************************************************************)
(* A model of the benthic matching engine and margin ledger:               *)
(*   order.rs          fixed-decimal arithmetic, orders, markets           *)
(*   order_book.rs     price levels, book sides, the order book            *)
(*   order_manager.rs  the live-order index and dispatcher                 *)
(*   execution_policy.rs, margin.rs   the two execution policies and the   *)
(*                     lot-based margin ledger                             *)
(* The engine is single-threaded and every call runs to completion, so    *)
(* one call of OrderManager::place_order, of MarginTradingAccount::transfer *)
(* or of an account constructor is one action.  The invocations of the     *)
(* execution policy and of the market-data observer that a call makes are  *)
(* kept, in order, in log.                                                 *)
(***************************************************************************)
EXTENDS Integers, Sequences, FiniteSets, TLC

(***************************************************************************)
(* Bounds of the model.                                                    *)
(***************************************************************************)
\* u64 is scaled down to Width bits
Width == 12
\* place_order calls that change the state, in one behaviour of SpecBook
MaxOrders == 3
\* place_order and transfer calls that change the state, in one behaviour of Spec
MaxCalls == 2
\* the same, in one behaviour of SpecLedger, and the place_order calls among them
MaxLedgerCalls == 3
MaxLedgerOrders == 2
\* place_order calls that change the state, in one behaviour of SpecGate
MaxGateOrders == 2
\* quantities and prices 0..MaxArith and decimals 0..MaxDecimals in SpecArith
MaxArith == 30
MaxDecimals == 4
\* orders placed in SpecIndex
MaxIndexOrders == 2
\* order quantities are 5, 10, .. 5 * MaxQty, in market precision
MaxQty == 2
\* prices are 10, 15, .. 5 * (MaxPrice + 1), in market precision
MaxPrice == 2

Pow2[n \in Nat] == IF n = 0 THEN 1 ELSE 2 * Pow2[n - 1]

Modulus == Pow2[Width]

MaxU64 == Modulus - 1

Quantities == {5 * q : q \in 1..MaxQty}

Prices == {5 * (p + 1) : p \in 1..MaxPrice}

Participants == {1, 2}

(***************************************************************************)
(* Option<T>: None is the empty sequence, Some(x) the one-element one.     *)
(***************************************************************************)
None == << >>

Some(x) == << x >>

IsSome(o) == o # None

Unwrap(o) == o[1]

Min(a, b) == IF a < b THEN a ELSE b

\* the value a let binds: the element of a one-element set
The(S) == CHOOSE y \in S : TRUE

(***************************************************************************)
(* order.rs: sides, assets, markets.                                       *)
(***************************************************************************)
opposite(side) == IF side = "Bid" THEN "Ask" ELSE "Bid"

\* Asset.decimals by symbol
AssetDecimals == [B |-> 2, Q |-> 1]

Assets == DOMAIN AssetDecimals

\* The markets orders and transfers may name.  BQ trades B against Q; QB
\* names Q as its base asset and is used for transfers of Q.
Markets ==
    [BQ |-> [symbol |-> "BQ", base_asset |-> "B", quote_asset |-> "Q",
             base_decimals |-> 1, quote_decimals |-> 1],
     QB |-> [symbol |-> "QB", base_asset |-> "Q", quote_asset |-> "B",
             base_decimals |-> 1, quote_decimals |-> 1]]

MarketSymbols == DOMAIN Markets

\* OrderBooks::new: the symbols that have a registered book
BookSymbols == {"BQ"}

(***************************************************************************)
(* Machine arithmetic.  The checked_* operations return None on overflow;  *)
(* the unchecked += and -= of the code wrap modulo 2^Width.                 *)
(***************************************************************************)
WrappingAdd(a, b) == (a + b) % Modulus

WrappingSub(a, b) == (a - b) % Modulus

saturating_sub(a, b) == IF a < b THEN 0 ELSE a - b

\* a variant of checked_mul that wraps as the unchecked * does
checked_mul_wrapping(a, b) == Some((a * b) % Modulus)

checked_mul(a, b) == IF a * b > MaxU64 THEN None ELSE Some(a * b)

checked_add(a, b) == IF a + b > MaxU64 THEN None ELSE Some(a + b)

checked_div(a, b) == IF b = 0 THEN None ELSE Some(a \div b)

\* The ? operator around checked_mul, checked_add and checked_div: None if
\* either operand is None
try_mul(oa, ob) ==
    IF IsSome(oa) /\ IsSome(ob) THEN checked_mul(Unwrap(oa), Unwrap(ob)) ELSE None

try_add(oa, ob) ==
    IF IsSome(oa) /\ IsSome(ob) THEN checked_add(Unwrap(oa), Unwrap(ob)) ELSE None

try_div(oa, ob) ==
    IF IsSome(oa) /\ IsSome(ob) THEN checked_div(Unwrap(oa), Unwrap(ob)) ELSE None

\* Some of the pair of two options, None if either is None
try_pair(oa, ob) ==
    IF IsSome(oa) /\ IsSome(ob) THEN Some(<< Unwrap(oa), Unwrap(ob) >>) ELSE None

RECURSIVE checked_pow(_, _)
checked_pow(base, e) ==
    IF e = 0 THEN Some(1) ELSE try_mul(checked_pow(base, e - 1), Some(base))

\* a variant of change_decimals that scales up in both directions
change_decimals_scaled(quantity, from_decimals, to_decimals) ==
    IF from_decimals < to_decimals
    THEN try_mul(Some(quantity), checked_pow(10, to_decimals - from_decimals))
    ELSE try_mul(Some(quantity), checked_pow(10, from_decimals - to_decimals))

change_decimals(quantity, from_decimals, to_decimals) ==
    IF from_decimals < to_decimals
    THEN try_mul(Some(quantity), checked_pow(10, to_decimals - from_decimals))
    ELSE try_div(Some(quantity), checked_pow(10, from_decimals - to_decimals))

\* a variant of calculate_value_sum that divides c * k_quote and d one by one
calculate_value_sum_split(a_base, b_base, a_quote, b_quote, k_base, k_quote) ==
    try_add(try_add(try_mul(checked_mul(a_base, a_quote), Some(k_quote)),
                    checked_mul(a_base, b_quote)),
            try_add(try_div(try_mul(checked_mul(a_quote, b_base), Some(k_quote)),
                            Some(k_base)),
                    try_div(checked_mul(b_base, b_quote), Some(k_base))))

\* calculate_value, the sum a * k_quote + b + (c * k_quote + d) / k_base
calculate_value_sum(a_base, b_base, a_quote, b_quote, k_base, k_quote) ==
    try_add(try_add(try_mul(checked_mul(a_base, a_quote), Some(k_quote)),
                    checked_mul(a_base, b_quote)),
            try_div(try_add(try_mul(checked_mul(a_quote, b_base), Some(k_quote)),
                            checked_mul(b_base, b_quote)),
                    Some(k_base)))

calculate_value(quantity, price, base_decimals, quote_decimals) ==
    The({IF ~IsSome(ok_base) \/ ~IsSome(ok_quote) THEN None
         ELSE calculate_value_sum(quantity \div Unwrap(ok_base),
                                  quantity % Unwrap(ok_base),
                                  price \div Unwrap(ok_quote),
                                  price % Unwrap(ok_quote),
                                  Unwrap(ok_base), Unwrap(ok_quote)) :
         ok_base \in {checked_pow(10, base_decimals)},
         ok_quote \in {checked_pow(10, quote_decimals)}})

\* Order::get_quantity_and_value: None or Some of the pair
\* <<base quantity, quote value>> in asset precision
get_quantity_and_value(market, quantity, price) ==
    LET m == Markets[market]
    IN  The({IF ~IsSome(order_value) THEN None
             ELSE try_pair(change_decimals(quantity, m.base_decimals,
                                           AssetDecimals[m.base_asset]),
                           change_decimals(Unwrap(order_value), m.quote_decimals,
                                           AssetDecimals[m.quote_asset])) :
             order_value \in {calculate_value(quantity, price, m.base_decimals,
                                              m.quote_decimals)}})

(***************************************************************************)
(* margin.rs: MarginLot.  A transaction is kept as its executed_quantity.  *)
(***************************************************************************)
\* a variant of close_quantity that records the quantity asked for
close_quantity_asked(lot, quantity) ==
    IF quantity < lot.quantity_left
    THEN [lot  |-> [lot EXCEPT !.quantity_left = @ - quantity,
                               !.transactions = Append(@, quantity)],
          left |-> None]
    ELSE [lot  |-> [lot EXCEPT !.quantity_left = 0,
                               !.transactions = Append(@, quantity)],
          left |-> Some(quantity - lot.quantity_left)]

\* MarginLot::close_quantity: the lot after, and Option of the quantity left
close_quantity(lot, quantity) ==
    IF quantity < lot.quantity_left
    THEN [lot  |-> [lot EXCEPT !.quantity_left = @ - quantity,
                               !.transactions = Append(@, quantity)],
          left |-> None]
    ELSE [lot  |-> [lot EXCEPT !.quantity_left = 0,
                               !.transactions = Append(@, lot.quantity_left)],
          left |-> Some(quantity - lot.quantity_left)]

(***************************************************************************)
(* margin.rs: MarginSide.                                                  *)
(***************************************************************************)
\* overflowed is a history field: an unchecked += or -= on one of the
\* counters of the side had a result outside of u64
NewSide ==
    [quantity_open |-> 0, quantity_locked |-> 0, quantity_committed |-> 0,
     open_lots |-> << >>, closed_lots |-> << >>, overflowed |-> FALSE]

promise_transaction(side, quantity) ==
    [side EXCEPT !.quantity_open = WrappingAdd(@, quantity),
                 !.overflowed = @ \/ side.quantity_open + quantity > MaxU64]

cancel_transaction_promise(side, quantity) ==
    [side EXCEPT !.quantity_open = saturating_sub(@, quantity)]

\* a variant of begin_transaction that locks the quantity twice
begin_transaction_twice(side, quantity) ==
    [side EXCEPT !.quantity_locked = WrappingAdd(WrappingAdd(@, quantity), quantity),
                 !.overflowed = @ \/ side.quantity_locked + 2 * quantity > MaxU64]

begin_transaction(side, quantity) ==
    [side EXCEPT !.quantity_locked = WrappingAdd(@, quantity),
                 !.overflowed = @ \/ side.quantity_locked + quantity > MaxU64]

\* a variant of will_commit_opposite_side that leaves the opposite side as it is
will_commit_opposite_side_kept(side, quantity) == [side |-> side, left |-> Some(quantity)]

\* the side after, and Option of the quantity the opposite side did not absorb
will_commit_opposite_side(side, quantity) ==
    IF quantity < side.quantity_committed
    THEN [side |-> [side EXCEPT !.quantity_committed = @ - quantity],
          left |-> None]
    ELSE [side |-> [side EXCEPT !.quantity_committed = 0],
          left |-> Some(quantity - side.quantity_committed)]

\* a variant of commit_transaction that unlocks and commits nothing
commit_transaction_unlock_only(side, unlock_quantity, commit_quantity) ==
    [side EXCEPT
       !.quantity_locked = WrappingSub(@, unlock_quantity),
       !.overflowed = @ \/ side.quantity_locked < unlock_quantity]

commit_transaction(side, unlock_quantity, commit_quantity) ==
    [side EXCEPT
       !.quantity_locked = WrappingSub(@, unlock_quantity),
       !.quantity_committed =
           IF IsSome(commit_quantity)
           THEN WrappingAdd(@, Unwrap(commit_quantity)) ELSE @,
       !.overflowed =
           \/ @
           \/ side.quantity_locked < unlock_quantity
           \/ /\ IsSome(commit_quantity)
              /\ side.quantity_committed + Unwrap(commit_quantity) > MaxU64]

\* the transaction the new lot is created with
create_lot_transactions(quantity) == << quantity >>

create_lot(side, quantity) ==
    [side EXCEPT !.open_lots =
        Append(@, [quantity_orig |-> quantity, quantity_left |-> quantity,
                   transactions |-> create_lot_transactions(quantity)])]

\* The fold_while of match_lots_tell over open_lots from index i on:
\* lots after, number of lots fully closed (pos), Option left, is_done
RECURSIVE fold_lots(_, _, _, _)
fold_lots(lots, i, pos, quantity) ==
    IF i > Len(lots)
    THEN [lots |-> lots, pos |-> pos, left |-> Some(quantity), done |-> FALSE]
    ELSE The({IF IsSome(r.left)
              THEN fold_lots([lots EXCEPT ![i] = r.lot], i + 1, pos + 1,
                             Unwrap(r.left))
              ELSE [lots |-> [lots EXCEPT ![i] = r.lot], pos |-> pos,
                    left |-> None, done |-> TRUE] :
              r \in {close_quantity(lots[i], quantity)}})

\* a variant of match_lots_tell that drains the closed lots without keeping them
match_lots_tell_drained(side, quantity) ==
    The({[side |-> [side EXCEPT
                      !.open_lots = SubSeq(result.lots, result.pos + 1,
                                           Len(result.lots))],
          has_partial_match |-> result.done,
          pos |-> result.pos,
          left |-> result.left] :
         result \in {fold_lots(side.open_lots, 1, 0, quantity)}})

\* MarginSide::match_lots_tell: (has_partial_match, pos, left) and the side
match_lots_tell(side, quantity) ==
    The({[side |-> [side EXCEPT
                      !.closed_lots = @ \o SubSeq(result.lots, 1, result.pos),
                      !.open_lots = SubSeq(result.lots, result.pos + 1,
                                           Len(result.lots))],
          has_partial_match |-> result.done,
          pos |-> result.pos,
          left |-> result.left] :
         result \in {fold_lots(side.open_lots, 1, 0, quantity)}})

(***************************************************************************)
(* margin.rs: MarginAssetAccount.                                          *)
(***************************************************************************)
\* net is a history field: the sum of the quantities committed as receipts
\* minus the sum of the quantities committed as deliveries
NewAssetAccount == [received |-> NewSide, delivered |-> NewSide, net |-> 0]

promise_receipt(acc, q) ==
    [acc EXCEPT !.received = promise_transaction(@, q)]

promise_delivery(acc, q) ==
    [acc EXCEPT !.delivered = promise_transaction(@, q)]

cancel_receipt_promise(acc, q) ==
    [acc EXCEPT !.received = cancel_transaction_promise(@, q)]

cancel_delivery_promise(acc, q) ==
    [acc EXCEPT !.delivered = cancel_transaction_promise(@, q)]

begin_receipt(acc, q) ==
    [acc EXCEPT !.received = begin_transaction(@, q)]

begin_delivery(acc, q) ==
    [acc EXCEPT !.delivered = begin_transaction(@, q)]

\* commit of quantity to side `this`, matching against the lots of side `that`
commit_side(acc, this, that, quantity) ==
    The({The({[acc EXCEPT
                 ![that] = w.side,
                 ![this] = commit_transaction(
                               IF IsSome(m.left)
                               THEN create_lot(acc[this], Unwrap(m.left))
                               ELSE acc[this],
                               quantity, w.left),
                 !.net = IF this = "received" THEN @ + quantity
                         ELSE @ - quantity] :
              w \in {will_commit_opposite_side(m.side, quantity)}}) :
         m \in {match_lots_tell(acc[that], quantity)}})

\* a variant of commit_receipt that commits to the received side without
\* offsetting the delivered side
commit_receipt_plain(acc, quantity) ==
    [acc EXCEPT !.received = commit_transaction(create_lot(@, quantity),
                                                quantity, Some(quantity)),
                !.net = @ + quantity]

commit_receipt(acc, quantity) ==
    commit_side(acc, "received", "delivered", quantity)

commit_delivery(acc, quantity) ==
    commit_side(acc, "delivered", "received", quantity)

(***************************************************************************)
(* margin.rs: MarginTradingAccount.  An account is its portfolio: a        *)
(* function from the symbols of the asset accounts it holds.               *)
(***************************************************************************)
NewTradingAccount == << >>

add_asset_account(account, asset) ==
    IF asset \in DOMAIN account THEN account
    ELSE [a \in DOMAIN account \cup {asset} |->
            IF a = asset THEN NewAssetAccount ELSE account[a]]

\* a variant of transfer that refuses to withdraw more than the account holds
transfer_checked(account, order, price) ==
    LET base == Markets[order.market].base_asset
    IN  IF base \notin DOMAIN account
        THEN [ok |-> FALSE, account |-> account]
        ELSE IF order.order_data.type \notin {"Deposit", "Withdraw"}
        THEN [ok |-> FALSE, account |-> account]
        ELSE
        The({IF \/ ~IsSome(qv)
                \/ /\ order.order_data.type = "Withdraw"
                   /\ Unwrap(qv)[1] > account[base].received.quantity_committed
             THEN [ok |-> FALSE, account |-> account]
             ELSE
             LET base_quantity == Unwrap(qv)[1]
             IN  [ok |-> TRUE,
                  account |->
                    [account EXCEPT ![base] =
                       IF order.order_data.type = "Deposit"
                       THEN commit_receipt(begin_receipt(@, base_quantity),
                                           base_quantity)
                       ELSE commit_delivery(begin_delivery(@, base_quantity),
                                            base_quantity)]] :
             qv \in {get_quantity_and_value(order.market,
                                            order.order_data.quantity, price)}})

\* MarginTradingAccount::transfer of a Deposit or Withdraw order
transfer(account, order, price) ==
    LET base == Markets[order.market].base_asset
    IN  IF base \notin DOMAIN account
        THEN [ok |-> FALSE, account |-> account]
        ELSE IF order.order_data.type \notin {"Deposit", "Withdraw"}
        THEN [ok |-> FALSE, account |-> account]
        ELSE
        The({IF ~IsSome(qv) THEN [ok |-> FALSE, account |-> account]
             ELSE
             LET base_quantity == Unwrap(qv)[1]
             IN  [ok |-> TRUE,
                  account |->
                    [account EXCEPT ![base] =
                       IF order.order_data.type = "Deposit"
                       THEN commit_receipt(begin_receipt(@, base_quantity),
                                           base_quantity)
                       ELSE commit_delivery(begin_delivery(@, base_quantity),
                                            base_quantity)]] :
             qv \in {get_quantity_and_value(order.market,
                                            order.order_data.quantity, price)}})

\* a variant of account_place_order that takes the Ask arm for either side
account_place_order_ask(account, book_order) ==
    LET data  == book_order.order.order_data
        base  == Markets[book_order.order.market].base_asset
        quote == Markets[book_order.order.market].quote_asset
    IN  IF data.type # "Limit" THEN [ok |-> FALSE, account |-> account]
        ELSE IF base \notin DOMAIN account \/ quote \notin DOMAIN account
        THEN [ok |-> FALSE, account |-> account]
        ELSE
        The({IF ~IsSome(qv) THEN [ok |-> FALSE, account |-> account]
             ELSE [ok |-> TRUE,
                   account |-> [account EXCEPT
                                  ![base]  = promise_delivery(@, Unwrap(qv)[1]),
                                  ![quote] = promise_receipt(@, Unwrap(qv)[2])]] :
             qv \in {get_quantity_and_value(book_order.order.market,
                                            book_order.quantity, data.price)}})

\* a variant of account_place_order that makes the promise on the base asset
\* before it looks the quote asset account up
account_place_order_eager(account, book_order) ==
    LET data  == book_order.order.order_data
        base  == Markets[book_order.order.market].base_asset
        quote == Markets[book_order.order.market].quote_asset
    IN  IF data.type # "Limit" \/ base \notin DOMAIN account
        THEN [ok |-> FALSE, account |-> account]
        ELSE [ok |-> FALSE,
              account |-> [account EXCEPT ![base] = promise_receipt(@, book_order.quantity)]]

\* MarginTradingAccount::place_order: the promise of a resting limit order
account_place_order(account, book_order) ==
    LET data  == book_order.order.order_data
        base  == Markets[book_order.order.market].base_asset
        quote == Markets[book_order.order.market].quote_asset
    IN  IF data.type # "Limit" THEN [ok |-> FALSE, account |-> account]
        ELSE IF base \notin DOMAIN account \/ quote \notin DOMAIN account
        THEN [ok |-> FALSE, account |-> account]
        ELSE
        The({IF ~IsSome(qv) THEN [ok |-> FALSE, account |-> account]
             ELSE
             LET base_quantity == Unwrap(qv)[1]
                 quote_value   == Unwrap(qv)[2]
             IN  [ok |-> TRUE,
                  account |->
                    IF data.side = "Ask"
                    THEN [account EXCEPT
                            ![base]  = promise_delivery(@, base_quantity),
                            ![quote] = promise_receipt(@, quote_value)]
                    ELSE [account EXCEPT
                            ![base]  = promise_receipt(@, base_quantity),
                            ![quote] = promise_delivery(@, quote_value)]] :
             qv \in {get_quantity_and_value(book_order.order.market,
                                            book_order.quantity, data.price)}})

\* MarginTradingAccount::cancel_order: the promise of a limit order taken back
account_cancel_order(account, book_order) ==
    LET data  == book_order.order.order_data
        base  == Markets[book_order.order.market].base_asset
        quote == Markets[book_order.order.market].quote_asset
    IN  IF data.type # "Limit" THEN [ok |-> FALSE, account |-> account]
        ELSE IF base \notin DOMAIN account \/ quote \notin DOMAIN account
        THEN [ok |-> FALSE, account |-> account]
        ELSE
        The({IF ~IsSome(qv) THEN [ok |-> FALSE, account |-> account]
             ELSE
             LET base_quantity == Unwrap(qv)[1]
                 quote_value   == Unwrap(qv)[2]
             IN  [ok |-> TRUE,
                  account |->
                    IF data.side = "Ask"
                    THEN [account EXCEPT
                            ![base]  = cancel_delivery_promise(@, base_quantity),
                            ![quote] = cancel_receipt_promise(@, quote_value)]
                    ELSE [account EXCEPT
                            ![base]  = cancel_delivery_promise(@, base_quantity),
                            ![quote] = cancel_delivery_promise(@, quote_value)]] :
             qv \in {get_quantity_and_value(book_order.order.market,
                                            book_order.quantity, data.price)}})

\* a variant of execution_side that puts the aggressor on the resting order's side
execution_side_same(book_order, is_aggressor) ==
    book_order.order.order_data.side

\* the side of the trade this account is on
execution_side(book_order, is_aggressor) ==
    IF is_aggressor THEN opposite(book_order.order.order_data.side)
    ELSE book_order.order.order_data.side

\* a variant of execution_price that takes the limit price of the order the
\* account's participant placed, where it has one
execution_price_own(order_quantity, book_order) ==
    IF "price" \in DOMAIN order_quantity.order.order_data
    THEN order_quantity.order.order_data.price
    ELSE book_order.order.order_data.price

\* the price the amounts of a fill are derived at
execution_price(order_quantity, book_order) ==
    book_order.order.order_data.price

\* MarginTradingAccount::execute_order_begin
execute_order_begin(account, executed_quantity, order_quantity, book_order, is_aggressor) ==
    LET base  == Markets[order_quantity.order.market].base_asset
        quote == Markets[order_quantity.order.market].quote_asset
    IN  IF book_order.order.order_data.type # "Limit"
        THEN [ok |-> FALSE, account |-> account]
        ELSE IF base \notin DOMAIN account \/ quote \notin DOMAIN account
        THEN [ok |-> FALSE, account |-> account]
        ELSE
        The({IF ~IsSome(qv) THEN [ok |-> FALSE, account |-> account]
             ELSE
             LET base_quantity == Unwrap(qv)[1]
                 quote_value   == Unwrap(qv)[2]
                 b0 == account[base]
                 q0 == account[quote]
             IN  [ok |-> TRUE,
                  account |->
                    IF execution_side(book_order, is_aggressor) = "Ask"
                    THEN [account EXCEPT
                       ![base] = begin_delivery(
                           IF is_aggressor THEN b0
                           ELSE cancel_delivery_promise(b0, base_quantity),
                           base_quantity),
                       ![quote] = begin_receipt(
                           IF is_aggressor THEN q0
                           ELSE cancel_receipt_promise(q0, quote_value),
                           quote_value)]
                    ELSE [account EXCEPT
                       ![base] = begin_receipt(
                           IF is_aggressor THEN b0
                           ELSE cancel_receipt_promise(b0, base_quantity),
                           base_quantity),
                       ![quote] = begin_delivery(
                           IF is_aggressor THEN q0
                           ELSE cancel_delivery_promise(q0, quote_value),
                           quote_value)]] :
             qv \in {get_quantity_and_value(order_quantity.order.market,
                         executed_quantity,
                         execution_price(order_quantity, book_order))}})

\* a variant of execute_order_commit that refuses the commit of the resting
\* order's account and commits nothing for the aggressor's
execute_order_commit_refused(account, executed_quantity, order_quantity, book_order, is_aggressor) ==
    [ok |-> is_aggressor, account |-> account]

\* MarginTradingAccount::execute_order_commit
execute_order_commit(account, executed_quantity, order_quantity, book_order, is_aggressor) ==
    LET base  == Markets[order_quantity.order.market].base_asset
        quote == Markets[order_quantity.order.market].quote_asset
    IN  IF book_order.order.order_data.type # "Limit"
        THEN [ok |-> FALSE, account |-> account]
        ELSE IF base \notin DOMAIN account \/ quote \notin DOMAIN account
        THEN [ok |-> FALSE, account |-> account]
        ELSE
        The({IF ~IsSome(qv) THEN [ok |-> FALSE, account |-> account]
             ELSE
             LET base_quantity == Unwrap(qv)[1]
                 quote_value   == Unwrap(qv)[2]
             IN  [ok |-> TRUE,
                  account |->
                    IF execution_side(book_order, is_aggressor) = "Ask"
                    THEN [account EXCEPT
                            ![base]  = commit_delivery(@, base_quantity),
                            ![quote] = commit_receipt(@, quote_value)]
                    ELSE [account EXCEPT
                            ![base]  = commit_receipt(@, base_quantity),
                            ![quote] = commit_delivery(@, quote_value)]] :
             qv \in {get_quantity_and_value(order_quantity.order.market,
                         executed_quantity,
                         execution_price(order_quantity, book_order))}})

\* MarginTradingAccount::execute_order_rollback: a stub
execute_order_rollback(account, executed_quantity, order_quantity) ==
    [ok |-> TRUE, account |-> account]

(***************************************************************************)
(* The execution policies.  Each returns status "Ok", "Err" or "Panic",    *)
(* the ledger after, and for execute_orders the two quantities after.      *)
(***************************************************************************)
\* the book order's remaining quantity after a fill of executed_quantity
book_quantity_after(quantity, executed_quantity) ==
    WrappingAdd(quantity, executed_quantity)

\* a variant of aggressor_quantity_after that adds what was executed
aggressor_quantity_after_added(quantity, executed_quantity) ==
    WrappingAdd(quantity, executed_quantity)

\* the aggressor's remaining quantity after a fill of executed_quantity
aggressor_quantity_after(quantity, executed_quantity) ==
    WrappingSub(quantity, executed_quantity)

\* ExecuteAllways::place_order
ExecuteAllways_place_order(ms, book_order) ==
    [status |-> IF book_order.quantity > 0 THEN "Ok" ELSE "Err", margins |-> ms]

\* ExecuteAllways::execute_orders
ExecuteAllways_execute_orders(ms, executed_quantity, aggressor_order, book_order) ==
    IF executed_quantity > 0
    THEN [status |-> "Ok", margins |-> ms, step |-> 0, rollback |-> FALSE,
          aggressor_quantity |->
              aggressor_quantity_after(aggressor_order.quantity,
                                       executed_quantity),
          book_quantity |->
              book_quantity_after(book_order.quantity, executed_quantity)]
    ELSE [status |-> "Err", margins |-> ms, step |-> 0, rollback |-> FALSE,
          aggressor_quantity |-> aggressor_order.quantity,
          book_quantity |-> book_order.quantity]

\* MarginManager::add_account with HashMap::insert in place of entry().or_insert()
add_account_reset(ms, participant_id) ==
    [p \in DOMAIN ms \cup {participant_id} |->
        IF p = participant_id THEN NewTradingAccount ELSE ms[p]]

\* MarginManager::add_account
add_account(ms, participant_id) ==
    IF participant_id \in DOMAIN ms THEN ms
    ELSE [p \in DOMAIN ms \cup {participant_id} |->
            IF p = participant_id THEN NewTradingAccount ELSE ms[p]]

\* MarginManager::place_order (ExecutionPolicy)
MarginManager_place_order(ms, order_quantity) ==
    LET pid == order_quantity.order.participant_id
    IN  IF order_quantity.quantity > 0 /\ pid \in DOMAIN ms
        THEN The({[status |-> IF r.ok THEN "Ok" ELSE "Err",
                   margins |-> [ms EXCEPT ![pid] = r.account]] :
                  r \in {account_place_order(ms[pid], order_quantity)}})
        ELSE [status |-> "Err", margins |-> ms]

\* what execute_orders returns: the quantities change when it returns Ok
execute_orders_out(status, m, step, rollback, executed_quantity, aggressor_order, book_order) ==
    [status |-> status, margins |-> m, step |-> step, rollback |-> rollback,
     aggressor_quantity |->
         IF status = "Ok"
         THEN aggressor_quantity_after(aggressor_order.quantity, executed_quantity)
         ELSE aggressor_order.quantity,
     book_quantity |->
         IF status = "Ok"
         THEN book_quantity_after(book_order.quantity, executed_quantity)
         ELSE book_order.quantity]

\* steps 3 and 4 of MarginManager::execute_orders: the commits, ms2 being the
\* ledger after both begins
MarginManager_execute_commits(ms2, executed_quantity, aggressor_order, book_order) ==
    LET apid == aggressor_order.order.participant_id
        bpid == book_order.order.participant_id
        Out(status, m, step, rollback) ==
            execute_orders_out(status, m, step, rollback, executed_quantity,
                               aggressor_order, book_order)
    IN  The({IF ~a2.ok THEN Out("Err", ms2, 3, FALSE)
             ELSE
             The({IF ~b2.ok
                  THEN Out("Err",
                           [ms2 EXCEPT ![apid] =
                              execute_order_rollback(a2.account,
                                  executed_quantity, aggressor_order).account],
                           4, TRUE)
                  ELSE Out("Ok", [ms2 EXCEPT ![apid] = a2.account,
                                             ![bpid] = b2.account], 0, FALSE) :
                  b2 \in {execute_order_commit(ms2[bpid], executed_quantity,
                                               book_order, book_order, FALSE)}}) :
             a2 \in {execute_order_commit(ms2[apid], executed_quantity,
                                          aggressor_order, book_order, TRUE)}})

\* MarginManager::execute_orders (ExecutionPolicy).  step is the step (1..4)
\* that failed, 0 if none did or the call failed before step 1.  The
\* aggressor's account stays mutably borrowed while the book order's
\* account is borrowed: the same account twice panics (RefCell).
MarginManager_execute_orders(ms, executed_quantity, aggressor_order, book_order) ==
    LET apid == aggressor_order.order.participant_id
        bpid == book_order.order.participant_id
        Out(status, m, step, rollback) ==
            execute_orders_out(status, m, step, rollback, executed_quantity,
                               aggressor_order, book_order)
    IN  IF executed_quantity = 0 THEN Out("Err", ms, 0, FALSE)
        ELSE IF apid \notin DOMAIN ms THEN Out("Err", ms, 1, FALSE)
        ELSE
        The({IF ~a1.ok THEN Out("Err", ms, 1, FALSE)
             ELSE IF bpid \notin DOMAIN ms
             THEN Out("Err", [ms EXCEPT ![apid] = a1.account], 2, FALSE)
             ELSE IF bpid = apid
             THEN Out("Panic", [ms EXCEPT ![apid] = a1.account], 2, FALSE)
             ELSE
             The({IF ~b1.ok
                  THEN Out("Err", [ms EXCEPT ![apid] = a1.account], 2, FALSE)
                  ELSE MarginManager_execute_commits(
                           [ms EXCEPT ![apid] = a1.account,
                                      ![bpid] = b1.account],
                           executed_quantity, aggressor_order, book_order) :
                  b1 \in {execute_order_begin(ms[bpid], executed_quantity,
                                              book_order, book_order, FALSE)}}) :
             a1 \in {execute_order_begin(ms[apid], executed_quantity,
                                         aggressor_order, book_order, TRUE)}})

\* dispatch on the policy the caller passes
policy_place_order(pol, ms, order_quantity) ==
    IF pol = "MarginManager" THEN MarginManager_place_order(ms, order_quantity)
    ELSE ExecuteAllways_place_order(ms, order_quantity)

policy_execute_orders(pol, ms, executed_quantity, aggressor_order, book_order) ==
    IF pol = "MarginManager"
    THEN MarginManager_execute_orders(ms, executed_quantity, aggressor_order,
                                      book_order)
    ELSE ExecuteAllways_execute_orders(ms, executed_quantity,
                                       aggressor_order, book_order)

(***************************************************************************)
(* The state.                                                              *)
(***************************************************************************)
VARIABLES
    bid,        \* OrderBook.bid: price |-> FIFO of OrderQuantity, one entry per level
    ask,        \* OrderBook.ask
    orders,     \* OrderManager.orders: <<participant_id, order_id>> |-> Order
    margins,    \* MarginManager.margins: participant_id |-> portfolio
    policy,     \* the ExecutionPolicy the program passes to place_order
    panicked,   \* the process has panicked
    aggressor,  \* the OrderQuantity of the last place_order call, as the call left it
    result,     \* the result of the last call
    log,        \* policy and observer invocations of the last call, in order
    nplaced,    \* number of place_order calls so far that changed the state
    ntransfers  \* number of transfer calls so far that changed the state

vars == << bid, ask, orders, margins, policy, panicked, aggressor, result, log, nplaced, ntransfers >>

\* the null object of the level tree's cursor
Null == 0

EmptyMap == << >>

\* a map with key k set to v
MapPut(f, k, v) == [x \in DOMAIN f \cup {k} |-> IF x = k THEN v ELSE f[x]]

\* a map without key k
MapRemove(f, k) == [x \in DOMAIN f \ {k} |-> f[x]]

SetMax(S) == CHOOSE x \in S : \A y \in S : y <= x

SetMin(S) == CHOOSE x \in S : \A y \in S : x <= y

(***************************************************************************)
(* order_book.rs: the cursor over the levels of one side, kept in a        *)
(* red-black tree ordered by price.                                        *)
(***************************************************************************)
\* RBTree::front_mut / back_mut
cursor_front(levels) == IF DOMAIN levels = {} THEN Null ELSE SetMin(DOMAIN levels)

cursor_back(levels) == IF DOMAIN levels = {} THEN Null ELSE SetMax(DOMAIN levels)

\* CursorMut::move_next: from the null object to the first element
cursor_move_next(levels, c) ==
    LET after == {p \in DOMAIN levels : c = Null \/ p > c}
    IN  IF after = {} THEN Null ELSE SetMin(after)

\* CursorMut::move_prev: from the null object to the last element
cursor_move_prev(levels, c) ==
    LET before == {p \in DOMAIN levels : c = Null \/ p < c}
    IN  IF before = {} THEN Null ELSE SetMax(before)

\* CursorMut::remove: the element is removed and the cursor moves to the next
cursor_remove(levels, c) ==
    LET after == {p \in DOMAIN levels : p > c}
    IN  [levels |-> MapRemove(levels, c),
         cursor |-> IF after = {} THEN Null ELSE SetMin(after)]

\* PriceLevelMatchOps::begin_ops, for the side of the book that is traversed
begin_ops(book_side, levels) ==
    IF book_side = "Bid" THEN cursor_back(levels) ELSE cursor_front(levels)

\* PriceLevelMatchOps::move_next
move_next(book_side, levels, c) ==
    IF book_side = "Bid" THEN cursor_move_prev(levels, c)
    ELSE cursor_move_next(levels, c)

\* a variant of LimitMatchOps::is_finished that ignores the limit price
limit_is_finished_unpriced(book_side, limit_price, quantity, level_price) == quantity = 0

\* LimitMatchOps::is_finished
limit_is_finished(book_side, limit_price, quantity, level_price) ==
    \/ quantity = 0
    \/ IF book_side = "Bid" THEN level_price < limit_price
       ELSE level_price > limit_price

\* a variant of MarketMatchOps::is_finished that stops above the lowest price
market_is_finished_priced(quantity, level_price) == quantity = 0 \/ level_price > 10

\* MarketMatchOps::is_finished
market_is_finished(quantity, level_price) == quantity = 0

\* a variant of is_finished that ends the traversal before the first level
is_finished_at_once(order_quantity, level_price) == TRUE

\* the strategy OrderBook::place_order picks for the order
is_finished(order_quantity, level_price) ==
    LET data == order_quantity.order.order_data
    IN  IF data.type = "Market"
        THEN market_is_finished(order_quantity.quantity, level_price)
        ELSE limit_is_finished(opposite(data.side), data.price,
                               order_quantity.quantity, level_price)

(***************************************************************************)
(* Orders.                                                                 *)
(***************************************************************************)
Sides == {"Bid", "Ask"}

OrderKey(order) == << order.participant_id, order.order_id >>

\* OrderQuantity::new_limit_order / new_market_order
NewOrderQuantity(order) ==
    [order |-> order,
     quantity |-> IF order.order_data.type \in {"Limit", "ImmediateOrCancel", "Market"}
                  THEN order.order_data.quantity ELSE 0]

(***************************************************************************)
(* order_book.rs: PriceLevel, PriceLevels, OrderBook.  The matching works  *)
(* on a record st of the side of the book that is traversed (levels), the  *)
(* ledger (margins), the aggressor, the log and the status so far.         *)
(***************************************************************************)
\* a variant of front_mut that takes the order that arrived last
front_mut_back(queue) == Len(queue)

\* the position in a level's queue of the order match_order takes next
front_mut(queue) == 1

\* PriceLevel::match_order, after an execution: the matched order's quantity
\* is updated and the head of the queue is removed when nothing of it is left
update_front(queue, quantity) ==
    LET i == front_mut(queue)
        q1 == [queue EXCEPT ![i] = [@ EXCEPT !.quantity = quantity]]
    IN  IF quantity = 0 THEN Tail(q1) ELSE q1

\* a variant of match_aborted that leaves the loop and drops the error
match_aborted_dropped(st, r, call) ==
    [st EXCEPT !.margins = r.margins, !.log = Append(@, call)]

\* the ? of PriceLevel::match_order after execute_orders: the error ends the
\* loop and is what the call returns; call is the record of the invocation
match_aborted(st, r, call) ==
    [st EXCEPT !.margins = r.margins, !.log = Append(@, call), !.status = r.status]

\* PriceLevel::match_order at the level of price `price`
RECURSIVE match_order(_, _)
match_order(st, price) ==
    LET queue == st.levels[price]
    IN  IF queue = << >> \/ st.aggressor.quantity = 0 THEN st
        ELSE
        LET book_order == queue[front_mut(queue)]
            executed_quantity == Min(st.aggressor.quantity, book_order.quantity)
        IN  The({
            LET call == [call |-> "execute_orders", status |-> r.status,
                         executed_quantity |-> executed_quantity,
                         book |-> OrderKey(book_order.order), price |-> price,
                         queue |-> [i \in 1..Len(queue) |-> OrderKey(queue[i].order)],
                         aggressor_before |-> st.aggressor.quantity,
                         book_before |-> book_order.quantity,
                         aggressor_after |-> r.aggressor_quantity,
                         book_after |-> r.book_quantity,
                         step |-> r.step, rollback |-> r.rollback,
                         margins_before |-> st.margins, margins_after |-> r.margins]
            IN  IF r.status = "Ok"
                THEN match_order(
                       [st EXCEPT
                          !.levels = [@ EXCEPT ![price] = update_front(queue, r.book_quantity)],
                          !.margins = r.margins,
                          !.aggressor = [@ EXCEPT !.quantity = r.aggressor_quantity],
                          !.log = @ \o << call,
                                     [call |-> "handle_order_executed",
                                      executed_quantity |-> executed_quantity,
                                      book |-> OrderKey(book_order.order)] >>],
                       price)
                ELSE match_aborted(st, r, call) :
            r \in {policy_execute_orders(policy, st.margins, executed_quantity,
                                         st.aggressor, book_order)}})

\* PriceLevels::match_order_side with the cursor at c
RECURSIVE match_order_side(_, _, _)
match_order_side(st, book_side, c) ==
    IF c = Null \/ is_finished(st.aggressor, c) THEN st
    ELSE
    The({IF s1.status # "Ok" THEN s1
         ELSE IF s1.levels[c] = << >>
         THEN The({match_order_side(
                       [s1 EXCEPT !.levels = removed.levels], book_side,
                       move_next(book_side, removed.levels, removed.cursor)) :
                   removed \in {cursor_remove(s1.levels, c)}})
         ELSE match_order_side(s1, book_side, move_next(book_side, s1.levels, c)) :
         s1 \in {match_order(st, c)}})

\* a variant of insert_order that opens a new level without its order
insert_order_empty(levels, price, book_order) ==
    IF price \in DOMAIN levels
    THEN [levels EXCEPT ![price] = Append(@, book_order)]
    ELSE MapPut(levels, price, << >>)

\* the position in the level's queue at which PriceLevel::place_order and
\* PriceLevel::new put the order: push_back
insert_order(levels, price, book_order) ==
    IF price \in DOMAIN levels
    THEN [levels EXCEPT ![price] = Append(@, book_order)]
    ELSE MapPut(levels, price, << book_order >>)

\* a variant of place_limit_order that tells the observer before the gate answers
place_limit_order_announced(levels, ms, order_quantity, events) ==
    The({
    LET call == [call |-> "place_order", status |-> r.status, quantity |-> order_quantity.quantity]
        told == [call |-> "handle_order_placed", quantity |-> order_quantity.quantity]
    IN  IF r.status = "Ok"
        THEN [status |-> "Ok", margins |-> r.margins,
              levels |-> insert_order(levels, order_quantity.order.order_data.price, order_quantity),
              log |-> events \o << told, call >>]
        ELSE [status |-> "Err", margins |-> r.margins, levels |-> levels,
              log |-> events \o << told, [call |-> "place_order", status |-> r.status,
                                          quantity |-> order_quantity.quantity,
                                          margins_before |-> ms,
                                          margins_after |-> r.margins] >>] :
    r \in {policy_place_order(policy, ms, order_quantity)}})

\* PriceLevels::place_limit_order on the order's own side `levels`: the gate
\* of the execution policy, then the observer, then the insertion
place_limit_order(levels, ms, order_quantity, events) ==
    The({
    LET call == [call |-> "place_order", status |-> r.status, quantity |-> order_quantity.quantity]
    IN  IF r.status = "Ok"
        THEN [status |-> "Ok", margins |-> r.margins,
              levels |-> insert_order(levels, order_quantity.order.order_data.price, order_quantity),
              log |-> events \o << call, [call |-> "handle_order_placed", quantity |-> order_quantity.quantity] >>]
        ELSE [status |-> "Err", margins |-> r.margins, levels |-> levels,
              log |-> Append(events, [call |-> "place_order", status |-> r.status,
                                      quantity |-> order_quantity.quantity,
                                      margins_before |-> ms,
                                      margins_after |-> r.margins])] :
    r \in {policy_place_order(policy, ms, order_quantity)}})

\* a variant of rests_after_match that rests ImmediateOrCancel orders too
rests_after_match_ioc(order_quantity) ==
    order_quantity.order.order_data.type \in {"Limit", "ImmediateOrCancel"}

\* whether OrderBook::place_order goes on to rest the order after matching
rests_after_match(order_quantity) ==
    order_quantity.order.order_data.type = "Limit"

\* OrderBook::place_order: the book, the ledger, the aggressor and the log
\* after, and the status "Ok", "Err" or "Panic"
book_place_order(b, a, ms, order) ==
    LET data == order.order_data
    IN  IF data.type \notin {"Limit", "ImmediateOrCancel", "Market"}
        THEN [status |-> "Err", reason |-> "InvalidOrderType", bid |-> b, ask |-> a, margins |-> ms,
              aggressor |-> NewOrderQuantity(order), log |-> << >>]
        ELSE
        LET book_side == opposite(data.side)
            opp == IF book_side = "Bid" THEN b ELSE a
            own == IF book_side = "Bid" THEN a ELSE b
            st0 == [levels |-> opp, margins |-> ms, aggressor |-> NewOrderQuantity(order),
                    log |-> << >>, status |-> "Ok"]
            Out(status, reason, opp2, own2, ms2, order_quantity, events) ==
                [status |-> status, reason |-> reason,
                 bid |-> IF book_side = "Bid" THEN opp2 ELSE own2,
                 ask |-> IF book_side = "Bid" THEN own2 ELSE opp2,
                 margins |-> ms2, aggressor |-> order_quantity, log |-> events]
        IN  The({IF m.status # "Ok"
                 THEN Out(m.status, "ExecuteFailed", m.levels, own, m.margins, m.aggressor, m.log)
                 ELSE IF rests_after_match(m.aggressor)
                 THEN The({Out(r.status, "PlaceFailed", m.levels, r.levels, r.margins, m.aggressor, r.log) :
                           r \in {place_limit_order(own, m.margins, m.aggressor, m.log)}})
                 ELSE Out("Ok", "", m.levels, own, m.margins, m.aggressor, m.log) :
                 m \in {match_order_side(st0, book_side, begin_ops(book_side, opp))}})

\* HashMap::insert of OrderManager.orders: an entry under the same key is replaced
orders_insert(os, order) == MapPut(os, OrderKey(order), order)

\* a variant of index_after that registers the order whatever the book returned
index_after_always(os, order, status) == orders_insert(os, order)

\* OrderManager.orders after OrderBook::place_order returned: the ? operator
\* returns the book's error before the order is registered
index_after(os, order, status) ==
    IF status = "Ok" THEN orders_insert(os, order) ELSE os

(***************************************************************************)
(* Init: OrderManager::new over the registered books, MarginManager::new.  *)
(* The program passes the same execution policy to every call.             *)
(***************************************************************************)
Policies == {"MarginManager", "ExecuteAllways"}

NoOrder == [order |-> [market |-> "BQ", participant_id |-> 0, order_id |-> 0, order_data |-> [type |-> "None"]], quantity |-> 0]

Init ==
    /\ bid = EmptyMap
    /\ ask = EmptyMap
    /\ orders = EmptyMap
    /\ margins = EmptyMap
    /\ policy \in Policies
    /\ panicked = FALSE
    /\ aggressor = NoOrder
    /\ result = "Ok"
    /\ log = << >>
    /\ nplaced = 0
    /\ ntransfers = 0

\* no place_order or transfer call has been made yet
NoCallYet == aggressor = NoOrder /\ result = "Ok" /\ nplaced = 0 /\ ntransfers = 0

(***************************************************************************)
(* MarginManager::add_account, MarginTradingAccount::add_asset_account     *)
(* and MarginTradingAccount::transfer, called by the embedding program     *)
(* when the margin manager is its execution policy.  The program sets the  *)
(* accounts up before it trades (examples/order_execution.rs).             *)
(***************************************************************************)
AddAccount(p) ==
    /\ ~panicked
    /\ policy = "MarginManager"
    /\ NoCallYet
    /\ margins' = add_account(margins, p)
    /\ UNCHANGED << bid, ask, orders, policy, panicked, aggressor, result, log, nplaced, ntransfers >>

AddAssetAccount(p, a) ==
    /\ ~panicked
    /\ policy = "MarginManager"
    /\ NoCallYet
    /\ p \in DOMAIN margins
    /\ margins' = [margins EXCEPT ![p] = add_asset_account(@, a)]
    /\ UNCHANGED << bid, ask, orders, policy, panicked, aggressor, result, log, nplaced, ntransfers >>

Transfer(p, market, type, quantity, price) ==
    /\ ~panicked
    /\ policy = "MarginManager"
    /\ p \in DOMAIN margins
    /\ LET order == [market |-> market, participant_id |-> p, order_id |-> 0,
                     order_data |-> [type |-> type, quantity |-> quantity]]
       IN  \E r \in {transfer(margins[p], order, price)} :
           /\ margins' = [margins EXCEPT ![p] = r.account]
           /\ result' = IF r.ok THEN "Ok" ELSE "TransferFailed"
           /\ ntransfers' = IF r.ok THEN ntransfers + 1 ELSE ntransfers
           /\ aggressor' = NewOrderQuantity(order)
    /\ log' = << >>
    /\ UNCHANGED << bid, ask, orders, policy, panicked, nplaced >>

(***************************************************************************)
(* OrderManager::place_order.                                              *)
(***************************************************************************)
PlaceOrder(order) ==
    /\ ~panicked
    /\ IF order.market \notin BookSymbols
       THEN /\ result' = "BookNotFound"
            /\ aggressor' = NewOrderQuantity(order)
            /\ log' = << >>
            /\ UNCHANGED << bid, ask, orders, margins, panicked, nplaced >>
       ELSE \E r \in {book_place_order(bid, ask, margins, order)} :
                /\ bid' = r.bid
                /\ ask' = r.ask
                /\ margins' = r.margins
                /\ aggressor' = r.aggressor
                /\ log' = r.log
                /\ panicked' = (r.status = "Panic")
                /\ result' = IF r.status = "Ok" THEN "Ok"
                             ELSE IF r.status = "Panic" THEN "Panic" ELSE r.reason
                /\ orders' = index_after(orders, order, r.status)
                /\ nplaced' = IF r.status = "Err" /\ r.bid = bid /\ r.ask = ask /\ r.margins = margins
                              THEN nplaced ELSE nplaced + 1
    /\ UNCHANGED << policy, ntransfers >>

\* the orders the program may submit next
OrderData ==
    [type : {"Limit", "ImmediateOrCancel"}, side : Sides, price : Prices, quantity : Quantities]
    \cup [type : {"Market"}, side : Sides, quantity : Quantities]

NewOrders ==
    {[market |-> "BQ", participant_id |-> p, order_id |-> nplaced + 1, order_data |-> d] :
        p \in Participants, d \in OrderData}
    \cup {[market |-> "BQ", participant_id |-> p, order_id |-> nplaced + 1,
           order_data |-> [type |-> t, quantity |-> 5]] : p \in Participants, t \in {"Deposit", "Withdraw"}}
    \cup {[market |-> "QB", participant_id |-> p, order_id |-> nplaced + 1,
           order_data |-> [type |-> "Limit", side |-> "Bid", price |-> 10, quantity |-> 5]] : p \in Participants}

\* orders under a key that an earlier call used
ReusedOrders ==
    {[market |-> "BQ", participant_id |-> p, order_id |-> k, order_data |-> d] :
        p \in Participants, k \in 1..nplaced, d \in OrderData}

\* requests to cancel the order of a key.  OrderType has no variant for
\* them: they reach OrderBook::place_order as an order that is neither Limit,
\* ImmediateOrCancel nor Market
CancelOrders ==
    {[market |-> "BQ", participant_id |-> p, order_id |-> k,
      order_data |-> [type |-> "Cancel"]] : p \in Participants, k \in 1..nplaced}

\* the smallest quantity that does not fit once it is scaled by ten
LargeQuantity == (MaxU64 \div 10) + 1

\* limit orders whose quantity overflows in asset precision
LargeOrders ==
    {[market |-> "BQ", participant_id |-> p, order_id |-> nplaced + 1,
      order_data |-> [type |-> "Limit", side |-> sd, price |-> 10, quantity |-> LargeQuantity]] :
        p \in Participants, sd \in Sides}

\* the largest quantity that fits once it is scaled by ten
BigQuantity == MaxU64 \div 10

\* limit orders whose quantity in asset precision is close to the largest u64
BigOrders ==
    {[market |-> "BQ", participant_id |-> p, order_id |-> nplaced + 1,
      order_data |-> [type |-> "Limit", side |-> sd, price |-> 10, quantity |-> BigQuantity]] :
        p \in Participants, sd \in Sides}

\* a quantity of which a part does not fit once it is scaled by ten, even
\* after an order of BigQuantity was taken from it
HugeQuantity == 3 * BigQuantity

\* orders that take more than the ledger can account for in one fill
HugeOrders ==
    {[market |-> "BQ", participant_id |-> p, order_id |-> nplaced + 1,
      order_data |-> [type |-> "Limit", side |-> sd, price |-> 10, quantity |-> HugeQuantity]] :
        p \in Participants, sd \in Sides}
    \cup {[market |-> "BQ", participant_id |-> p, order_id |-> nplaced + 1,
           order_data |-> [type |-> "Market", side |-> sd, quantity |-> HugeQuantity]] :
        p \in Participants, sd \in Sides}

\* the transfers the program may make next
Transfers ==
    \E p \in Participants, m \in MarketSymbols, t \in {"Deposit", "Withdraw"}, q \in Quantities, pr \in Prices :
        Transfer(p, m, t, q, pr)

(***************************************************************************)
(* Spec: the whole program from construction.                              *)
(***************************************************************************)
Next ==
    \/ \E p \in Participants : AddAccount(p)
    \/ \E p \in Participants, a \in Assets : AddAssetAccount(p, a)
    \/ nplaced + ntransfers < MaxCalls /\ Transfers
    \/ nplaced + ntransfers < MaxCalls /\ \E order \in NewOrders : PlaceOrder(order)

Spec == Init /\ [][Next]_vars

(***************************************************************************)
(* SpecBook: trading once both participants hold accounts of both assets.  *)
(***************************************************************************)
Funded == [p \in Participants |-> [a \in Assets |-> NewAssetAccount]]

InitBook ==
    /\ bid = EmptyMap
    /\ ask = EmptyMap
    /\ orders = EmptyMap
    /\ policy \in Policies
    /\ margins = IF policy = "MarginManager" THEN Funded ELSE EmptyMap
    /\ panicked = FALSE
    /\ aggressor = NoOrder
    /\ result = "Ok"
    /\ log = << >>
    /\ nplaced = 0
    /\ ntransfers = 0

NextBook == nplaced < MaxOrders /\ \E order \in NewOrders : PlaceOrder(order)

SpecBook == InitBook /\ [][NextBook]_vars

(***************************************************************************)
(* SpecLedger: transfers and trading once both participants hold accounts  *)
(* of both assets, under the margin manager.                               *)
(***************************************************************************)
InitLedger == InitBook /\ policy = "MarginManager"

NextLedger ==
    \/ nplaced + ntransfers < MaxLedgerCalls /\ Transfers
    \/ /\ nplaced + ntransfers < MaxLedgerCalls
       /\ nplaced < MaxLedgerOrders
       /\ \E order \in NewOrders : PlaceOrder(order)

SpecLedger == InitLedger /\ [][NextLedger]_vars

(***************************************************************************)
(* SpecIndex: trading with requests that name the key of an earlier order. *)
(***************************************************************************)
NextIndex ==
    \/ nplaced < MaxIndexOrders /\ \E order \in NewOrders : PlaceOrder(order)
    \/ nplaced < MaxIndexOrders /\ \E order \in ReusedOrders : PlaceOrder(order)
    \/ \E order \in CancelOrders : PlaceOrder(order)

SpecIndex == InitBook /\ [][NextIndex]_vars

(***************************************************************************)
(* SpecGate: the margin manager from construction, the accounts set up     *)
(* first, then trading with orders of every size.                          *)
(***************************************************************************)
InitGate == Init /\ policy = "MarginManager"

NextGate ==
    \/ \E p \in Participants : AddAccount(p)
    \/ \E p \in Participants, a \in Assets : AddAssetAccount(p, a)
    \/ nplaced < MaxGateOrders /\ \E order \in NewOrders : PlaceOrder(order)
    \/ nplaced < MaxGateOrders /\ \E order \in LargeOrders : PlaceOrder(order)
    \/ nplaced < MaxGateOrders /\ \E order \in BigOrders : PlaceOrder(order)

SpecGate == InitGate /\ [][NextGate]_vars

(***************************************************************************)
(* SpecAbort: trading under the margin manager, both participants holding  *)
(* accounts of both assets, with orders large enough for execute_orders to *)
(* fail in the middle of a match.                                          *)
(***************************************************************************)
MaxAbortOrders == 3

\* the orders of the smallest quantity
SmallOrders ==
    {order \in NewOrders : /\ order.market = "BQ"
                           /\ order.order_data.type \in {"Limit", "ImmediateOrCancel", "Market"}
                           /\ order.order_data.quantity = 5}

NextAbort ==
    \/ nplaced < MaxAbortOrders /\ \E order \in SmallOrders : PlaceOrder(order)
    \/ nplaced < MaxAbortOrders /\ \E order \in BigOrders : PlaceOrder(order)
    \/ nplaced < MaxAbortOrders /\ \E order \in HugeOrders : PlaceOrder(order)

SpecAbort == InitLedger /\ [][NextAbort]_vars

(***************************************************************************)
(* SpecCancel: MarginTradingAccount::place_order and cancel_order called   *)
(* on an account, one after the other for the same order and quantity,     *)
(* after some trading.  log holds the two calls.                           *)
(***************************************************************************)
MaxCancelOrders == 1
\* commits in SpecLots are of 5, 10, .. 5 * MaxLotQty, until the asset account
\* holds MaxLots lots
MaxLotQty == 3
MaxLots == 4

\* the OrderQuantity values the two methods are called with
BookOrders ==
    {[order |-> [market |-> "BQ", participant_id |-> p, order_id |-> nplaced + 1,
                 order_data |-> [type |-> "Limit", side |-> sd, price |-> pr,
                                 quantity |-> q]],
      quantity |-> q] : p \in Participants, sd \in Sides, pr \in Prices, q \in Quantities}

AccountPlaceOrder(book_order) ==
    /\ ~panicked
    /\ policy = "MarginManager"
    /\ book_order.order.participant_id \in DOMAIN margins
    /\ \E r \in {account_place_order(margins[book_order.order.participant_id], book_order)} :
        /\ margins' = [margins EXCEPT ![book_order.order.participant_id] = r.account]
        /\ log' = << [call |-> "account_place_order", ok |-> r.ok,
                      book_order |-> book_order, margins_before |-> margins] >>
    /\ UNCHANGED << bid, ask, orders, policy, panicked, aggressor, result, nplaced, ntransfers >>

\* cancel_order for the order and quantity of the place_order call before it
AccountCancelOrder ==
    /\ ~panicked
    /\ Len(log) = 1
    /\ log[1].call = "account_place_order"
    /\ log[1].ok
    /\ LET book_order == log[1].book_order
           p == book_order.order.participant_id
       IN  \E r \in {account_cancel_order(margins[p], book_order)} :
           /\ margins' = [margins EXCEPT ![p] = r.account]
           /\ log' = Append(log, [call |-> "account_cancel_order", ok |-> r.ok])
    /\ UNCHANGED << bid, ask, orders, policy, panicked, aggressor, result, nplaced, ntransfers >>

NextCancel ==
    \/ /\ log = << >>
       /\ nplaced < MaxCancelOrders
       /\ \E order \in NewOrders : PlaceOrder(order)
    \/ /\ \A i \in DOMAIN log : log[i].call # "account_place_order"
       /\ \E book_order \in BookOrders : AccountPlaceOrder(book_order)
    \/ AccountCancelOrder

SpecCancel == InitLedger /\ [][NextCancel]_vars

(***************************************************************************)
(* SpecArith: calculate_value and change_decimals called on their own, as  *)
(* the tests of order.rs call them, one test in a behaviour.  log holds    *)
(* the calls: their arguments and the value returned.                      *)
(***************************************************************************)
\* the quantities and prices passed
ArithValues == 0..MaxArith \cup {99, 100, 101, 150, 200, BigQuantity, LargeQuantity, MaxU64}

Decimals == 0..MaxDecimals

InitArith == InitBook /\ policy = "ExecuteAllways"

CalculateValue(quantity, price, base_decimals, quote_decimals) ==
    /\ log = << >>
    /\ log' = << [call |-> "calculate_value", quantity |-> quantity, price |-> price,
                  base_decimals |-> base_decimals, quote_decimals |-> quote_decimals,
                  value |-> calculate_value(quantity, price, base_decimals, quote_decimals)] >>
    /\ UNCHANGED << bid, ask, orders, margins, policy, panicked, aggressor, result, nplaced, ntransfers >>

ChangeDecimals(quantity, from_decimals, to_decimals) ==
    /\ log = << >>
    /\ log' = << [call |-> "change_decimals", quantity |-> quantity,
                  from_decimals |-> from_decimals, to_decimals |-> to_decimals,
                  value |-> change_decimals(quantity, from_decimals, to_decimals)] >>
    /\ UNCHANGED << bid, ask, orders, margins, policy, panicked, aggressor, result, nplaced, ntransfers >>

\* change_decimals called on the value the call before returned, back to the
\* decimals it came from
ChangeDecimalsBack ==
    /\ Len(log) = 1
    /\ log[1].call = "change_decimals"
    /\ IsSome(log[1].value)
    /\ log' = Append(log, [call |-> "change_decimals", quantity |-> Unwrap(log[1].value),
                           from_decimals |-> log[1].to_decimals,
                           to_decimals |-> log[1].from_decimals,
                           value |-> change_decimals(Unwrap(log[1].value),
                                                     log[1].to_decimals,
                                                     log[1].from_decimals)])
    /\ UNCHANGED << bid, ask, orders, margins, policy, panicked, aggressor, result, nplaced, ntransfers >>

NextArith ==
    \/ /\ log = << >>
       /\ \E q \in ArithValues, p \in ArithValues, b \in Decimals, d \in Decimals :
              CalculateValue(q, p, b, d)
    \/ /\ log = << >>
       /\ \E q \in ArithValues, f \in Decimals, t \in Decimals : ChangeDecimals(q, f, t)
    \/ ChangeDecimalsBack

SpecArith == InitArith /\ [][NextArith]_vars

(***************************************************************************)
(* The margin manager with accounts and asset accounts added at any time,  *)
(* before and after orders were placed: add_account and add_asset_account  *)
(* are public and take any participant and any asset.  The call records    *)
(* the ledger it found and the handle it returned.                         *)
(***************************************************************************)
MaxAccountOrders == 2

AddAccountCall(p) ==
    /\ ~panicked
    /\ policy = "MarginManager"
    /\ \E ms \in {add_account(margins, p)} :
        /\ margins' = ms
        /\ log' = << [call |-> "add_account", participant_id |-> p,
                      margins_before |-> margins, account |-> ms[p]] >>
    /\ UNCHANGED << bid, ask, orders, policy, panicked, aggressor, result, nplaced, ntransfers >>

AddAssetAccountCall(p, a) ==
    /\ ~panicked
    /\ policy = "MarginManager"
    /\ p \in DOMAIN margins
    /\ \E account \in {add_asset_account(margins[p], a)} :
        /\ margins' = [margins EXCEPT ![p] = account]
        /\ log' = << [call |-> "add_asset_account", participant_id |-> p, asset |-> a,
                      margins_before |-> margins, asset_account |-> account[a]] >>
    /\ UNCHANGED << bid, ask, orders, policy, panicked, aggressor, result, nplaced, ntransfers >>

NextAccounts ==
    \/ \E p \in Participants : AddAccountCall(p)
    \/ \E p \in Participants, a \in Assets : AddAssetAccountCall(p, a)
    \/ nplaced < MaxAccountOrders /\ \E order \in NewOrders : PlaceOrder(order)

SpecAccounts == InitGate /\ [][NextAccounts]_vars

(***************************************************************************)
(* Properties.  log holds the policy and observer invocations of the last  *)
(* place_order call, aggressor its order and what was left of it, result   *)
(* what it returned.  order_id grows with the time of the call, so of two  *)
(* resting orders the one with the smaller order_id was placed first.      *)
(***************************************************************************)
\* the execute_orders calls of a log that returned Ok
FillsOf(events) ==
    {i \in DOMAIN events : events[i].call = "execute_orders" /\ events[i].status = "Ok"}

Fills == FillsOf(log)

\* whether a log holds a call of the execution policy's place_order gate
GateCalled(events) == \E i \in DOMAIN events : events[i].call = "place_order"

RECURSIVE SumSeq(_)
SumSeq(s) == IF s = << >> THEN 0 ELSE Head(s) + SumSeq(Tail(s))

\* the quantity resting in a level
LevelQuantity(queue) == SumSeq([i \in DOMAIN queue |-> queue[i].quantity])

\* the quantity resting in the levels of the prices in S
RECURSIVE RestingIn(_, _)
RestingIn(levels, S) ==
    IF S = {} THEN 0
    ELSE LET p == CHOOSE x \in S : TRUE
         IN  LevelQuantity(levels[p]) + RestingIn(levels, S \ {p})

\* the quantity the fills of a log took at price p
TakenAt(events, p) ==
    SumSeq([i \in DOMAIN events |->
              IF i \in FillsOf(events) /\ events[i].price = p
              THEN events[i].executed_quantity ELSE 0])

AggressorData == aggressor.order.order_data

(* C1: price-time priority.  No fill is executed against a resting order   *)
(* while an order placed before it rests in the same level: every order    *)
(* that shares the level with the filled order at the time of the fill was *)
(* placed after it.                                                        *)
PriceTimePriority ==
    \A i \in Fills : \A j \in DOMAIN log[i].queue :
        log[i].queue[j] # log[i].book => log[i].queue[j][2] > log[i].book[2]

\* a fill at a level that holds two orders or more
PriceTimePriorityWitness == \E i \in Fills : Len(log[i].queue) >= 2

(* C2: price priority.  A Limit or ImmediateOrCancel Bid with limit price  *)
(* P is never filled against an Ask priced above P, and a Limit or         *)
(* ImmediateOrCancel Ask never against a Bid priced below P.               *)
PricePriority ==
    AggressorData.type \in {"Limit", "ImmediateOrCancel"} =>
        \A i \in Fills :
            IF AggressorData.side = "Bid"
            THEN log[i].price <= AggressorData.price
            ELSE log[i].price >= AggressorData.price

\* a priced order was filled while the opposite side held a level beyond its limit
PricePriorityWitness ==
    /\ AggressorData.type \in {"Limit", "ImmediateOrCancel"}
    /\ Fills # {}
    /\ IF AggressorData.side = "Bid"
       THEN \E p \in DOMAIN ask : p > AggressorData.price
       ELSE \E p \in DOMAIN bid : p < AggressorData.price

(* C3: quantity conservation per fill.  Every execute_orders call that     *)
(* returns Ok with executed quantity q decreases the aggressor's quantity  *)
(* by q and the resting order's quantity by q.                             *)
QuantityConservation ==
    \A i \in Fills :
        /\ log[i].aggressor_after = log[i].aggressor_before - log[i].executed_quantity
        /\ log[i].book_after = log[i].book_before - log[i].executed_quantity

(* C4: multi-level limit sweep.  A Limit order that went through matching  *)
(* took from each opposite level within its limit no more than rested      *)
(* there, left the levels beyond its limit untouched, left no emptied      *)
(* level behind, and rests with the residual if its quantity exceeded what *)
(* rested within its limit.                                                *)
SweepAsClaimed ==
    (aggressor'.order.order_data.type = "Limit" /\ result' \in {"Ok", "PlaceFailed"}) =>
        LET data == aggressor'.order.order_data
            opp == IF data.side = "Bid" THEN ask ELSE bid
            opp2 == IF data.side = "Bid" THEN ask' ELSE bid'
            own2 == IF data.side = "Bid" THEN bid' ELSE ask'
            Within(p) == IF data.side = "Bid" THEN p <= data.price ELSE p >= data.price
            inside == {p \in DOMAIN opp : Within(p)}
            rested == RestingIn(opp, inside)
        IN  /\ \A i \in FillsOf(log') : log'[i].price \in inside
            /\ \A p \in inside : TakenAt(log', p) <= LevelQuantity(opp[p])
            /\ \A p \in DOMAIN opp \ inside : p \in DOMAIN opp2 /\ opp2[p] = opp[p]
            /\ \A p \in DOMAIN opp2 : opp2[p] # << >>
            /\ data.quantity > rested =>
                   /\ result' = "Ok"
                   /\ data.price \in DOMAIN own2
                   /\ \E k \in DOMAIN own2[data.price] :
                          /\ own2[data.price][k].order = aggressor'.order
                          /\ own2[data.price][k].quantity = data.quantity - rested

LimitSweep == [][SweepAsClaimed]_vars

(* C5: a Limit order whose whole quantity is filled during matching is     *)
(* accepted: the call returns Ok and the execution policy's place_order    *)
(* gate is not attempted for it.                                           *)
FilledLimitAccepted ==
    (AggressorData.type = "Limit" /\ Fills # {} /\ aggressor.quantity = 0 /\ ~panicked) =>
        result = "Ok" /\ ~GateCalled(log)

(* C6: an ImmediateOrCancel order never rests.  The call leaves the        *)
(* order's own side of the book as it was and does not invoke the          *)
(* execution policy's place_order gate.                                    *)
IOCStep ==
    aggressor'.order.order_data.type = "ImmediateOrCancel" =>
        /\ IF aggressor'.order.order_data.side = "Bid" THEN bid' = bid ELSE ask' = ask
        /\ ~GateCalled(log')

IOCNeverRests == [][IOCStep]_vars

\* an ImmediateOrCancel order returned Ok with quantity left, its own side not empty
IOCNeverRestsWitness ==
    /\ AggressorData.type = "ImmediateOrCancel"
    /\ result = "Ok"
    /\ aggressor.quantity > 0
    /\ DOMAIN (IF AggressorData.side = "Bid" THEN bid ELSE ask) # {}

(* C7: a Market order is matched from the best price outward regardless of *)
(* price and stops only when its quantity is 0 or the opposite side has no *)
(* more levels; it never rests, and the call returns Ok with any remainder *)
(* dropped.  (A call the execution policy failed or panicked in is left to *)
(* the claims about errors.)                                               *)
MarketStep ==
    (aggressor'.order.order_data.type = "Market" /\ result' \notin {"ExecuteFailed", "Panic"}) =>
        LET side == aggressor'.order.order_data.side
            opp == IF side = "Bid" THEN ask ELSE bid
            F == FillsOf(log')
        IN  /\ result' = "Ok"
            /\ IF side = "Bid" THEN bid' = bid ELSE ask' = ask
            /\ ~GateCalled(log')
            /\ \A i \in F : \A j \in F :
                   i < j => IF side = "Bid" THEN log'[i].price <= log'[j].price
                            ELSE log'[i].price >= log'[j].price
            /\ \A i \in F : (\A j \in F : i <= j) =>
                   log'[i].price = IF side = "Bid" THEN SetMin(DOMAIN opp) ELSE SetMax(DOMAIN opp)
            /\ aggressor'.quantity > 0 => \A p \in DOMAIN opp : TakenAt(log', p) > 0
            /\ DOMAIN opp # {} => F # {}

MarketSweep == [][MarketStep]_vars

\* a Market Bid was filled at a price above the lowest price of the model
MarketSweepWitness ==
    /\ AggressorData.type = "Market"
    /\ AggressorData.side = "Bid"
    /\ result = "Ok"
    /\ \E i \in Fills : log[i].price > 10

CommitQuantities == {5, 50, 100, 150}

CommitOffsets(acc, q, this, that) ==
    LET after == commit_side(acc, this, that, q)
        offset == Min(q, acc[that].quantity_committed)
    IN  /\ after[that].quantity_committed = acc[that].quantity_committed - offset
        /\ after[this].quantity_committed = acc[this].quantity_committed + (q - offset)

NetCommitted ==
    \A p \in DOMAIN margins : \A a \in DOMAIN margins[p] :
        LET acc == margins[p][a]
        IN  /\ acc.received.quantity_committed - acc.delivered.quantity_committed = acc.net
            /\ \A q \in CommitQuantities :
                   /\ CommitOffsets(acc, q, "received", "delivered")
                   /\ CommitOffsets(acc, q, "delivered", "received")

\* a delivery was committed against part of an earlier receipt
NetCommittedWitness ==
    \E p \in DOMAIN margins : \E a \in DOMAIN margins[p] :
        /\ margins[p][a].net > 0
        /\ margins[p][a].delivered.quantity_committed = 0
        /\ \E i \in DOMAIN margins[p][a].received.open_lots :
               Len(margins[p][a].received.open_lots[i].transactions) >= 2

\* the lots of every side of every asset account
AllLots ==
    UNION {{margins[p][a][s].open_lots[i] : i \in DOMAIN margins[p][a][s].open_lots}
           \cup {margins[p][a][s].closed_lots[i] : i \in DOMAIN margins[p][a][s].closed_lots} :
             <<p, a, s>> \in {<<p, a, s>> \in Participants \X Assets \X {"received", "delivered"} :
                                p \in DOMAIN margins /\ a \in DOMAIN margins[p]}}

KeysIn(levels) ==
    UNION {{OrderKey(levels[p][i].order) : i \in DOMAIN levels[p]} : p \in DOMAIN levels}

\* the keys of the orders resting in the book
RestingKeys == KeysIn(bid) \cup KeysIn(ask)

\* a queue without the orders of key k, the others in their order
Without(queue, k) == SelectSeq(queue, LAMBDA o : OrderKey(o.order) # k)

\* the levels of one side without the orders of key k and without the levels
\* that leaves empty
WithoutKey(levels, k) ==
    [p \in {x \in DOMAIN levels : Without(levels[x], k) # << >>} |-> Without(levels[p], k)]

\* the calls of a name in a log
CallsOf(events, name) == {i \in DOMAIN events : events[i].call = name}

(* C11: cancel mid-queue.  A request to cancel the key of a resting order  *)
(* succeeds, takes exactly that order out of its level and leaves the      *)
(* others at the level in their order, invokes the execution policy's      *)
(* cancel_order once and removes the key from the index of OrderManager.   *)
CancelAsClaimed ==
    (/\ aggressor'.order.order_data.type = "Cancel"
     /\ OrderKey(aggressor'.order) \in RestingKeys)
    => /\ result' = "Ok"
       /\ bid' = WithoutKey(bid, OrderKey(aggressor'.order))
       /\ ask' = WithoutKey(ask, OrderKey(aggressor'.order))
       /\ Cardinality(CallsOf(log', "cancel_order")) = 1
       /\ OrderKey(aggressor'.order) \notin DOMAIN orders'

CancelMidQueue == [][CancelAsClaimed]_vars

(* C12: duplicate rejection.  An order whose key is in the index of        *)
(* OrderManager is refused with a DuplicateOrder error, and the books, the *)
(* index and the ledger are left as they were.                             *)
DuplicateAsClaimed ==
    (/\ aggressor'.order.order_data.type \in {"Limit", "ImmediateOrCancel", "Market"}
     /\ OrderKey(aggressor'.order) \in DOMAIN orders)
    => /\ result' = "DuplicateOrder"
       /\ bid' = bid
       /\ ask' = ask
       /\ orders' = orders
       /\ margins' = margins

DuplicateRejection == [][DuplicateAsClaimed]_vars

(* C13: live-order index.  After every call the keys of OrderManager.orders *)
(* are the keys of the orders that rest in the book; an ImmediateOrCancel  *)
(* or Market order, which never rests, is not in the index.                *)
LiveOrderIndex == DOMAIN orders = RestingKeys

(* C14: rejected inputs change nothing.  A place_order call for a market   *)
(* without a registered book, or for a Deposit or Withdraw order, returns  *)
(* an error, invokes neither the execution policy nor an observer and      *)
(* leaves the books, the index and the ledger as they were.                *)
RejectedStep ==
    (\/ aggressor'.order.market \notin BookSymbols
     \/ aggressor'.order.order_data.type \in {"Deposit", "Withdraw"})
    => /\ result' \in {"BookNotFound", "InvalidOrderType"}
       /\ log' = << >>
       /\ bid' = bid
       /\ ask' = ask
       /\ orders' = orders
       /\ margins' = margins
       /\ panicked' = panicked

RejectedInputs == [][RejectedStep]_vars

\* a rejected call while orders rest in the book
RejectedInputsWitness ==
    /\ result \in {"BookNotFound", "InvalidOrderType"}
    /\ RestingKeys # {}

\* the last entry of a log
Last(events) == events[Len(events)]

\* the call ended with the placement gate of the execution policy failing
GateFailed(events) ==
    /\ events # << >>
    /\ Last(events).call = "place_order"
    /\ Last(events).status = "Err"

(* C15: the placement gate is atomic.  When MarginManager::place_order     *)
(* fails, it leaves every counter of every account as it was, the order    *)
(* joins no level and opens none, handle_order_placed is not called and    *)
(* the order is not registered in the index.                               *)
GateFailedStep ==
    GateFailed(log')
    => /\ Last(log').margins_after = Last(log').margins_before
       /\ margins' = Last(log').margins_after
       /\ IF aggressor'.order.order_data.side = "Bid" THEN bid' = bid ELSE ask' = ask
       /\ CallsOf(log', "handle_order_placed") = {}
       /\ orders' = orders
       /\ OrderKey(aggressor'.order) \notin DOMAIN orders'
       /\ result' = "PlaceFailed"

GateAtomic == [][GateFailedStep]_vars

\* the gate failed for an order with quantity left, with promises open in the ledger
GateAtomicWitness ==
    /\ GateFailed(log)
    /\ aggressor.quantity > 0
    /\ \E p \in DOMAIN margins : \E a \in DOMAIN margins[p] :
           margins[p][a].received.quantity_open > 0

\* the sides of the asset accounts of the ledger
AllSides ==
    {margins[x[1]][x[2]][x[3]] :
        x \in {y \in Participants \X Assets \X {"received", "delivered"} :
                 y[1] \in DOMAIN margins /\ y[2] \in DOMAIN margins[y[1]]}}

(* C16: arithmetic overflow safety.  No arithmetic step overflows or       *)
(* underflows: the unchecked updates of quantity_open, quantity_locked and *)
(* quantity_committed stay within u64, and so do the updates of the two    *)
(* order quantities in execute_orders.                                     *)
OverflowSafety ==
    /\ \A side \in AllSides : ~side.overflowed
    /\ \A i \in Fills :
           /\ log[i].aggressor_before >= log[i].executed_quantity
           /\ log[i].book_before + log[i].executed_quantity <= MaxU64

\* ten to the power n, exactly
RECURSIVE Pow10(_)
Pow10(n) == IF n = 0 THEN 1 ELSE 10 * Pow10(n - 1)

(* C17: calculate_value.  Whenever calculate_value(quantity, price,         *)
(* base_decimals, quote_decimals) returns Some(v), v is the floor of        *)
(* quantity * price / 10^base_decimals.                                     *)
CalculateValueExact ==
    \A i \in CallsOf(log, "calculate_value") :
        IsSome(log[i].value)
        => Unwrap(log[i].value)
             = (log[i].quantity * log[i].price) \div Pow10(log[i].base_decimals)

\* the call of test_calculate_value, and a call whose exact quotient has a remainder
CalculateValueExactWitness ==
    \E i \in CallsOf(log, "calculate_value") :
        /\ log[i].value = Some(3000)
        /\ log[i].quantity = 150 /\ log[i].price = 200
        /\ log[i].base_decimals = 1 /\ log[i].quote_decimals = 2

\* what change_decimals(quantity, from, to) is to return
ScaledExactly(quantity, from, to) ==
    LET k == Pow10(IF from < to THEN to - from ELSE from - to)
    IN  IF k > MaxU64 THEN None
        ELSE IF to >= from
        THEN (IF quantity * k > MaxU64 THEN None ELSE Some(quantity * k))
        ELSE Some(quantity \div k)

(* C18: change_decimals(q, from, to) returns q * 10^(to - from) when        *)
(* to >= from and the truncating quotient q / 10^(from - to) when           *)
(* to < from, and None, never a wrapped value, when the scaled result or    *)
(* the power of ten does not fit.                                           *)
ChangeDecimalsExact ==
    \A i \in CallsOf(log, "change_decimals") :
        log[i].value = ScaledExactly(log[i].quantity, log[i].from_decimals, log[i].to_decimals)

\* a call whose scaled result does not fit
ChangeDecimalsExactWitness ==
    \E i \in CallsOf(log, "change_decimals") :
        /\ log[i].quantity = LargeQuantity
        /\ log[i].from_decimals = 1 /\ log[i].to_decimals = 2
        /\ log[i].value = None

(* C19: decimal round trip.  For a <= b, if change_decimals(q, a, b)        *)
(* succeeds then change_decimals of its value from b back to a returns q.   *)
DecimalRoundTrip ==
    (/\ Len(log) = 2
     /\ log[1].call = "change_decimals"
     /\ log[1].from_decimals <= log[1].to_decimals)
    => log[2].value = Some(log[1].quantity)

\* a quantity scaled up by two decimals and back
DecimalRoundTripWitness ==
    /\ Len(log) = 2
    /\ log[1].call = "change_decimals"
    /\ log[1].quantity = 30
    /\ log[1].from_decimals = 1 /\ log[1].to_decimals = 3
    /\ log[2].value = Some(30)

(***************************************************************************)
(* Account creation                                                        *)
(***************************************************************************)
\* the last call was add_account or add_asset_account for something present
AccountCreationRepeated ==
    \A i \in CallsOf(log, "add_account") \cup CallsOf(log, "add_asset_account") :
        LET before == log[i].margins_before
            p == log[i].participant_id
        IN  /\ (log[i].call = "add_account" /\ p \in DOMAIN before)
                    => margins = before /\ log[i].account = before[p]
            /\ (log[i].call = "add_asset_account" /\ log[i].asset \in DOMAIN before[p])
                    => margins = before /\ log[i].asset_account = before[p][log[i].asset]

\* no step removes an account or an asset account
AccountsKept ==
    /\ DOMAIN margins \subseteq DOMAIN margins'
    /\ \A p \in DOMAIN margins : DOMAIN margins[p] \subseteq DOMAIN margins'[p]

(* C20: idempotent account creation.  add_account for an existing          *)
(* participant and add_asset_account for an asset already in the portfolio *)
(* return the existing account and leave every counter and lot as it was;  *)
(* no operation removes an account or an asset account.                    *)
IdempotentAccountCreation == []AccountCreationRepeated /\ [][AccountsKept]_vars

\* add_account called for a participant whose account holds promised quantity
IdempotentAccountCreationWitness ==
    \E i \in CallsOf(log, "add_account") :
        /\ log[i].participant_id \in DOMAIN log[i].margins_before
        /\ \E a \in DOMAIN margins[log[i].participant_id] :
               margins[log[i].participant_id][a] # NewAssetAccount

(***************************************************************************)
(* Lots                                                                    *)
(***************************************************************************)
IsPrefix(s, t) == Len(s) <= Len(t) /\ SubSeq(t, 1, Len(s)) = s

\* the lots a side ever created, in the order of their creation: lots are
\* created at the back of open_lots and closed from its front
LotsOf(side) == side.closed_lots \o side.open_lots

\* lot l2 is lot l at a later time
SameLot(l, l2) ==
    /\ l2.quantity_orig = l.quantity_orig
    /\ l2.quantity_left <= l.quantity_left
    /\ IsPrefix(l.transactions, l2.transactions)

SideKeepsLots(side, side2) ==
    /\ IsPrefix(side.closed_lots, side2.closed_lots)
    /\ Len(LotsOf(side)) <= Len(LotsOf(side2))
    /\ \A i \in 1..Len(LotsOf(side)) : SameLot(LotsOf(side)[i], LotsOf(side2)[i])

LotsKept ==
    \A p \in DOMAIN margins : \A a \in DOMAIN margins[p] :
        /\ p \in DOMAIN margins' /\ a \in DOMAIN margins'[p]
        /\ \A sd \in {"received", "delivered"} :
               SideKeepsLots(margins[p][a][sd], margins'[p][a][sd])

(* C21: closed lots are retained.  On every step closed_lots of every side  *)
(* only grows at its back, and every lot a side holds, open or closed, is   *)
(* after the step in exactly one of the two lists of the same side, in the  *)
(* order of creation.                                                       *)
ClosedLotsRetained == [][LotsKept]_vars

\* a side that has closed two lots
ClosedLotsRetainedWitness ==
    \E side \in AllSides : Len(side.closed_lots) >= 2

(***************************************************************************)
(* Errors during matching                                                  *)
(***************************************************************************)
\* the execute_orders calls of a log that returned an error
FailedFills(events) ==
    {i \in DOMAIN events : events[i].call = "execute_orders" /\ events[i].status = "Err"}

\* levels with the quantity of the order of key k at price set to quantity;
\* the order leaves when nothing is left of it, and the level with its last order
SetQuantity(levels, price, k, quantity) ==
    LET queue == levels[price]
        q1 == IF quantity = 0 THEN Without(queue, k)
              ELSE [n \in DOMAIN queue |->
                      IF OrderKey(queue[n].order) = k
                      THEN [queue[n] EXCEPT !.quantity = quantity] ELSE queue[n]]
    IN  IF q1 = << >> THEN MapRemove(levels, price) ELSE [levels EXCEPT ![price] = q1]

\* levels after the fills of events from index i on were applied to it
RECURSIVE ApplyFills(_, _, _)
ApplyFills(levels, events, i) ==
    IF i > Len(events) THEN levels
    ELSE IF events[i].call = "execute_orders" /\ events[i].status = "Ok"
    THEN ApplyFills(SetQuantity(levels, events[i].price, events[i].book,
                                events[i].book_after), events, i + 1)
    ELSE ApplyFills(levels, events, i + 1)

AbortedStep ==
    \A i \in FailedFills(log') :
        LET side == aggressor'.order.order_data.side
        IN  /\ i = Len(log')
            /\ result' = "ExecuteFailed"
            /\ orders' = orders
            /\ IF side = "Bid"
               THEN bid' = bid /\ ask' = ApplyFills(ask, log', 1)
               ELSE ask' = ask /\ bid' = ApplyFills(bid, log', 1)
            /\ log'[1].margins_before = margins
            /\ \A j \in FillsOf(log') : log'[j + 2].margins_before = log'[j].margins_after
            /\ margins' = log'[i].margins_after

(* C22: error propagation during matching.  When execute_orders returns an  *)
(* error for a fill, that call is the last thing the place_order call does: *)
(* no further fill is attempted, the order is not rested and not            *)
(* registered in the index, and the call returns the error; the fills       *)
(* applied before it in the same call remain in the book and in the ledger. *)
MatchErrorPropagation == [][AbortedStep]_vars

\* execute_orders failed after an earlier fill of the same call, with another
\* order resting
MatchErrorPropagationWitness ==
    /\ \E i \in FailedFills(log) : i > 1
    /\ Cardinality(RestingKeys) >= 2

(***************************************************************************)
(* Market data                                                             *)
(***************************************************************************)
\* entry i of events is a call of the execution policy that returned Ok
Accepted(events, i, name) ==
    /\ i \in DOMAIN events
    /\ events[i].call = name
    /\ events[i].status = "Ok"

EventsMirror(events) ==
    \A i \in DOMAIN events :
        LET e == events[i]
        IN  /\ (e.call \in {"execute_orders", "place_order"} /\ e.status # "Ok")
                    => i = Len(events)
            /\ Accepted(events, i, "execute_orders")
                    => /\ i < Len(events)
                       /\ events[i + 1].call = "handle_order_executed"
                       /\ events[i + 1].executed_quantity = e.executed_quantity
                       /\ events[i + 1].book = e.book
            /\ Accepted(events, i, "place_order")
                    => /\ i < Len(events)
                       /\ events[i + 1].call = "handle_order_placed"
                       /\ events[i + 1].quantity = e.quantity
            /\ e.call = "handle_order_executed" => Accepted(events, i - 1, "execute_orders")
            /\ e.call = "handle_order_placed" => Accepted(events, i - 1, "place_order")

MarketDataStep ==
    /\ EventsMirror(log')
    /\ Cardinality(CallsOf(log', "handle_order_placed")) =
           Cardinality(RestingKeys' \ RestingKeys)
    /\ Cardinality(CallsOf(log', "handle_order_executed")) = Cardinality(FillsOf(log'))

(* C23: market-data events mirror accepted mutations.  handle_order_placed  *)
(* is invoked once, right after the policy accepted the placement, for each *)
(* order that comes to rest, and handle_order_executed once, right after    *)
(* it, for each execute_orders call that returned Ok; after a call of the   *)
(* policy that returned an error no handler is invoked.                     *)
MarketDataMirror == [][MarketDataStep]_vars

\* a call that told the observer of a fill and then ended on an error of the policy
MarketDataMirrorWitness ==
    /\ CallsOf(log, "handle_order_executed") # {}
    /\ Last(log).call \in {"execute_orders", "place_order"}
    /\ Last(log).status = "Err"

(***************************************************************************)
(* Termination                                                             *)
(***************************************************************************)
\* the results a place_order call ends with
Results == {"Ok", "BookNotFound", "InvalidOrderType", "ExecuteFailed", "PlaceFailed", "Panic"}

\* The variant of the two loops.  Every iteration of the loop of match_order
\* that goes on takes at least one unit from what is left of the aggressor,
\* an iteration that fails is the last, and the traversal of match_order_side
\* never returns to a level it has left.
MatchProgress(events, side) ==
    \A i \in CallsOf(events, "execute_orders") :
        /\ events[i].status = "Ok"
              => /\ events[i].executed_quantity >= 1
                 /\ events[i].aggressor_after =
                        events[i].aggressor_before - events[i].executed_quantity
        /\ events[i].status # "Ok" => i = Len(events)
        /\ \A j \in CallsOf(events, "execute_orders") :
              j < i => /\ events[j].status = "Ok"
                       /\ events[i].aggressor_before <= events[j].aggressor_after
                       /\ IF side = "Bid" THEN events[j].price <= events[i].price
                          ELSE events[j].price >= events[i].price

TerminationStep ==
    /\ result' \in Results
    /\ CallsOf(log', "execute_orders") # {}
          => /\ MatchProgress(log', aggressor'.order.order_data.side)
             /\ Cardinality(FillsOf(log')) <= aggressor'.order.order_data.quantity

(* C24: termination.  Every place_order call ends with a result; each       *)
(* iteration of the match loop of a level takes at least one unit from the  *)
(* aggressor or ends the call, the traversal of the levels goes one way,    *)
(* and the number of fills of a call is at most the order's quantity.       *)
PlaceOrderTerminates == [][TerminationStep]_vars

\* a call that went through the loop of a level at least three times
PlaceOrderTerminatesWitness == Cardinality(Fills) >= 3

(***************************************************************************)
(* Withdrawals                                                             *)
(***************************************************************************)
\* the sum of quantity_left over a list of lots
RECURSIVE SumLeft(_)
SumLeft(lots) == IF lots = << >> THEN 0 ELSE Head(lots).quantity_left + SumLeft(Tail(lots))

\* the quantity of a transfer order in the precision of its asset
TransferQuantity(order) ==
    change_decimals(order.order_data.quantity, Markets[order.market].base_decimals,
                    AssetDecimals[Markets[order.market].base_asset])

\* the step is a transfer call of a Withdraw order, for an account it finds
IsWithdrawal ==
    /\ aggressor'.order.order_data.type = "Withdraw"
    /\ result' \in {"Ok", "TransferFailed"}
    /\ aggressor'.order.participant_id \in DOMAIN margins
    /\ Markets[aggressor'.order.market].base_asset
           \in DOMAIN margins[aggressor'.order.participant_id]

\* what the claim says of a withdrawal of q from an account that is long L,
\* short(D, q, L) being what delivered.quantity_committed becomes
WithdrawalAsStated(short(_, _, _)) ==
    IsWithdrawal =>
        LET order == aggressor'.order
            a == Markets[order.market].base_asset
            acc == margins[order.participant_id][a]
            acc2 == margins'[order.participant_id][a]
            q == Unwrap(TransferQuantity(order))
            L == SumLeft(acc.received.open_lots)
        IN  /\ result' = "Ok"
            /\ q > L =>
                 /\ acc2.received.open_lots = << >>
                 /\ Len(acc2.received.closed_lots) =
                        Len(acc.received.closed_lots) + Len(acc.received.open_lots)
                 /\ acc2.delivered.open_lots =
                        Append(acc.delivered.open_lots,
                               [quantity_orig |-> q - L, quantity_left |-> q - L,
                                transactions |-> << q - L >>])
                 /\ acc2.delivered.quantity_committed =
                        short(acc.delivered.quantity_committed, q, L)

ShortAsStated(D, q, L) == q - L

(* C25: a Withdraw is not balance-checked.  transfer of Withdraw(q)         *)
(* succeeds even when q exceeds the long position L of the account in the   *)
(* asset; it closes every open long lot, opens a short lot of q - L, and    *)
(* delivered.quantity_committed becomes q - L.                              *)
WithdrawUnchecked == [][WithdrawalAsStated(ShortAsStated)]_vars

ShortAmended(D, q, L) == D + (q - L)

(* C25, amended: as C25, but delivered.quantity_committed grows by q - L;   *)
(* it becomes q - L only when the account was not short before.             *)
WithdrawUncheckedAdding == [][WithdrawalAsStated(ShortAmended)]_vars

\* a withdrawal of more than the long position of an account that holds an
\* open long lot
WithdrawUncheckedWitness ==
    /\ aggressor.order.order_data.type = "Withdraw"
    /\ result = "Ok"
    /\ \E a \in Assets :
          LET acc == margins[aggressor.order.participant_id][a]
          IN  /\ acc.received.open_lots = << >>
              /\ acc.received.closed_lots # << >>
              /\ acc.delivered.open_lots # << >>
              /\ Last(acc.delivered.open_lots).transactions = << 50 >>
              /\ Last(acc.received.closed_lots).quantity_orig = 50

(***************************************************************************)
(* Cancelling a promise                                                    *)
(***************************************************************************)
\* quantity_open of the two sides of every asset of every account
OpenOf(ms) ==
    [p \in DOMAIN ms |-> [a \in DOMAIN ms[p] |->
        << ms[p][a].received.quantity_open, ms[p][a].delivered.quantity_open >>]]

(* C26: cancel_order is the inverse of place_order.  After place_order and  *)
(* then cancel_order of the same Limit order and quantity on an account,    *)
(* quantity_open of the received and delivered sides of the base and of     *)
(* the quote asset is what it was before the placement.                     *)
CancelInverse ==
    (/\ Len(log) = 2
     /\ log[2].call = "account_cancel_order"
     /\ log[2].ok)
    => OpenOf(margins) = OpenOf(log[1].margins_before)

(***************************************************************************)
(* The promise of a placement                                              *)
(***************************************************************************)
\* the base quantity and the quote value of quantity at price, in the
\* precision of the two assets of the market
PromiseOf(market, quantity, price) ==
    LET m == Markets[market]
    IN  << Unwrap(ScaledExactly(quantity, m.base_decimals, AssetDecimals[m.base_asset])),
           Unwrap(ScaledExactly((quantity * price) \div Pow10(m.base_decimals),
                                m.quote_decimals, AssetDecimals[m.quote_asset])) >>

\* ledger ms with the promise of book_order added to quantity_open of the
\* two sides the order promises on, and nothing else changed
WithPromise(ms, book_order) ==
    LET order == book_order.order
        m == Markets[order.market]
        pr == PromiseOf(order.market, book_order.quantity, order.order_data.price)
        base_side == IF order.order_data.side = "Bid" THEN "received" ELSE "delivered"
        quote_side == IF order.order_data.side = "Bid" THEN "delivered" ELSE "received"
    IN  [ms EXCEPT ![order.participant_id] =
           [@ EXCEPT ![m.base_asset] =
                        [@ EXCEPT ![base_side] =
                            [@ EXCEPT !.quantity_open = @ + pr[1]]],
                     ![m.quote_asset] =
                        [@ EXCEPT ![quote_side] =
                            [@ EXCEPT !.quantity_open = @ + pr[2]]]]]

(* C27: a successful MarginTradingAccount::place_order of a Limit order     *)
(* with remaining quantity q at limit price p changes only quantity_open:   *)
(* of base.received and quote.delivered for a Bid, of base.delivered and    *)
(* quote.received for an Ask, by the base quantity and by the quote value   *)
(* of q at p in asset precision.                                            *)
PlacementPromise ==
    (/\ Len(log) = 1
     /\ log[1].call = "account_place_order"
     /\ log[1].ok)
    => margins = WithPromise(log[1].margins_before, log[1].book_order)

\* a Bid placed on an account that holds the promise of an earlier order
PlacementPromiseWitness ==
    /\ Len(log) = 1
    /\ log[1].call = "account_place_order"
    /\ log[1].ok
    /\ log[1].book_order.order.order_data.side = "Bid"
    /\ log[1].book_order.order.order_data.price = 15
    /\ OpenOf(log[1].margins_before)[log[1].book_order.order.participant_id]["B"][1] > 0

(***************************************************************************)
(* Open promises                                                           *)
(***************************************************************************)
\* the orders of participant p resting on one side of the book
RestingOf(levels, p) ==
    {oq \in UNION {{levels[pr][i] : i \in DOMAIN levels[pr]} : pr \in DOMAIN levels} :
        oq.order.participant_id = p}

\* the sum of the promises of the remaining quantities of the resting orders
\* S: of the base quantities for i = 1, of the quote values for i = 2
RECURSIVE SumPromise(_, _)
SumPromise(S, i) ==
    IF S = {} THEN 0
    ELSE LET oq == CHOOSE y \in S : TRUE
         IN  PromiseOf(oq.order.market, oq.quantity, oq.order.order_data.price)[i]
                + SumPromise(S \ {oq}, i)

\* every call so far that changed the state returned Ok
AllCallsOk == Cardinality(DOMAIN orders) = nplaced

(* C28: open-promise accounting.  After successful placements and fills,    *)
(* quantity_open of every side of every asset of every account is the sum   *)
(* of the promises of the remaining quantities of the participant's         *)
(* resting orders: base quantity on the base asset, quote value at the      *)
(* order's limit price on the quote asset.                                  *)
OpenPromiseAccounting ==
    (policy = "MarginManager" /\ AllCallsOk /\ ~panicked) =>
        \A p \in DOMAIN margins :
            /\ margins[p]["B"].received.quantity_open = SumPromise(RestingOf(bid, p), 1)
            /\ margins[p]["Q"].delivered.quantity_open = SumPromise(RestingOf(bid, p), 2)
            /\ margins[p]["B"].delivered.quantity_open = SumPromise(RestingOf(ask, p), 1)
            /\ margins[p]["Q"].received.quantity_open = SumPromise(RestingOf(ask, p), 2)


\* what the fill log[i] of events added to net of asset a of participant p
NetChange(events, i, p, a) ==
    events[i].margins_after[p][a].net - events[i].margins_before[p][a].net

\* fill i of events was accounted at the price of the level the resting order
\* rests at, for the participant agg who took it and the resting participant
FillAtRestingPrice(events, i, agg) ==
    LET e == events[i]
        bk == e.book[1]
        m == Markets[agg.order.market]
        pr == PromiseOf(agg.order.market, e.executed_quantity, e.price)
        sign == IF agg.order.order_data.side = "Bid" THEN 1 ELSE -1
    IN  /\ NetChange(events, i, agg.order.participant_id, m.base_asset) = sign * pr[1]
        /\ NetChange(events, i, agg.order.participant_id, m.quote_asset) = (-sign) * pr[2]
        /\ NetChange(events, i, bk, m.base_asset) = (-sign) * pr[1]
        /\ NetChange(events, i, bk, m.quote_asset) = sign * pr[2]

RestingPriceStep ==
    policy = "MarginManager" =>
        \A i \in FillsOf(log') : FillAtRestingPrice(log', i, aggressor')

(* C29: trades execute at the resting price.  For every fill that returned  *)
(* Ok, what the ledger commits for the aggressor and for the resting        *)
(* participant is the base quantity and the quote value of the executed     *)
(* quantity at the resting order's limit price, never at the aggressor's:   *)
(* what one of them delivers is what the other receives.                    *)
ExecutionAtRestingPrice == [][RestingPriceStep]_vars

\* a limit order was filled at a price that is not its own limit price
ExecutionAtRestingPriceWitness ==
    /\ policy = "MarginManager"
    /\ "price" \in DOMAIN aggressor.order.order_data
    /\ \E i \in Fills : log[i].price # aggressor.order.order_data.price


(***************************************************************************)
(* SpecExecute: ExecutionPolicy::execute_orders of MarginManager called on *)
(* a ledger in which a participant may have no account, or an account that *)
(* lacks an asset.                                                         *)
(***************************************************************************)
\* the OrderQuantity values the caller passes: of limit, immediate-or-cancel
\* and market orders, of the quantities of the model and of LargeQuantity
ExecuteOrderQuantities ==
    {NewOrderQuantity(order) : order \in
        {o \in NewOrders \cup LargeOrders :
            /\ o.market \in BookSymbols
            /\ o.order_data.type \in {"Limit", "ImmediateOrCancel", "Market"}}}

\* the quantities to execute: none, those of the model, and LargeQuantity
ExecutedQuantities == {0} \cup Quantities \cup {LargeQuantity}

\* one call of MarginManager::execute_orders, the first call on the ledger
ExecuteOrders(executed_quantity, aggressor_order, book_order) ==
    /\ ~panicked
    /\ policy = "MarginManager"
    /\ log = << >>
    /\ executed_quantity <= Min(aggressor_order.quantity, book_order.quantity)
    /\ \E r \in {MarginManager_execute_orders(margins, executed_quantity,
                                              aggressor_order, book_order)} :
        /\ margins' = r.margins
        /\ panicked' = (r.status = "Panic")
        /\ result' = IF r.status = "Err" THEN "ExecuteFailed" ELSE r.status
        /\ log' = << [call |-> "policy_execute_orders", status |-> r.status,
                      step |-> r.step, rollback |-> r.rollback,
                      executed_quantity |-> executed_quantity,
                      aggressor_order |-> aggressor_order,
                      book_order |-> book_order,
                      aggressor_after |-> r.aggressor_quantity,
                      book_after |-> r.book_quantity,
                      margins_before |-> margins] >>
    /\ UNCHANGED << bid, ask, orders, policy, aggressor, nplaced, ntransfers >>

NextExecute ==
    \/ \E p \in Participants : AddAccount(p)
    \/ \E p \in Participants, a \in Assets : AddAssetAccount(p, a)
    \/ /\ log = << >>
       /\ \E executed_quantity \in ExecutedQuantities,
             aggressor_order \in ExecuteOrderQuantities,
             book_order \in ExecuteOrderQuantities :
               ExecuteOrders(executed_quantity, aggressor_order, book_order)

SpecExecute == InitGate /\ [][NextExecute]_vars

\* the execute_orders call of the log failed at one of the steps of S
FailedAtStep(S) ==
    /\ log # << >>
    /\ log[1].call = "policy_execute_orders"
    /\ log[1].status = "Err"
    /\ log[1].step \in S

\* the call of the log left the ledger and the two quantities as they were
LeftUntouched ==
    /\ margins = log[1].margins_before
    /\ log[1].aggressor_after = log[1].aggressor_order.quantity
    /\ log[1].book_after = log[1].book_order.quantity

(* C30: clean abort of a fill.  When MarginManager::execute_orders fails at *)
(* step 1 (the aggressor's execute_order_begin, or no account of the        *)
(* aggressor) or at step 2 (the book participant's execute_order_begin, or  *)
(* no account of the book participant), every counter and lot of both       *)
(* accounts and the quantities of both orders are as before the call.       *)
CleanAbort == FailedAtStep({1, 2}) => LeftUntouched

\* the same for a failure at step 1 alone
CleanAbortAtStepOne == FailedAtStep({1}) => LeftUntouched


\* the execute_orders calls of the log, made through the book or directly
ExecuteCalls ==
    {i \in DOMAIN log : log[i].call \in {"execute_orders", "policy_execute_orders"}}

(* C31: execute_order_rollback is never invoked for an account whose        *)
(* execute_order_commit for the same fill has succeeded.  The only call of  *)
(* execute_order_rollback is for the aggressor's account at step 4, after   *)
(* the aggressor's commit at step 3 succeeded: no call of execute_orders    *)
(* gets there.                                                              *)
NoRollbackAfterCommit ==
    policy = "MarginManager" =>
        \A i \in ExecuteCalls : ~(log[i].rollback /\ log[i].step > 3)

\* a call of execute_orders in which both commits succeeded
NoRollbackAfterCommitWitness ==
    /\ policy = "MarginManager"
    /\ \E i \in ExecuteCalls : log[i].status = "Ok" /\ ~log[i].rollback


(***************************************************************************)
(* SpecLots: commit_receipt and commit_delivery on the asset account of B  *)
(* of participant 1, each after the begin that transfer and                *)
(* execute_order_begin call first, with the lot events they fire.          *)
(***************************************************************************)
LotQuantities == {5 * q : q \in 1..MaxLotQty}

\* MarginSide::match_lots_with_callback: the lots it passes to its callback,
\* in order, each with the list and the position it was read from
match_lots_with_callback(side, quantity) ==
    The({(IF m.has_partial_match /\ m.side.open_lots # << >>
          THEN << [lot |-> m.side.open_lots[1], list |-> "open_lots", index |-> 1] >>
          ELSE << >>)
         \o [k \in 1..(IF Len(m.side.closed_lots) > m.pos
                        THEN Len(m.side.closed_lots) - m.pos ELSE 0) |->
                [lot |-> m.side.closed_lots[k], list |-> "closed_lots", index |-> k]] :
         m \in {match_lots_tell(side, quantity)}})

\* the calls of the MarginLotEventHandler that a commit of quantity to side
\* `this` makes, in order
commit_events(acc, this, that, quantity) ==
    The({[k \in DOMAIN cb |->
             [call |-> "handle_lot_closed", side |-> that, lot |-> cb[k].lot,
              list |-> cb[k].list, index |-> cb[k].index]]
         \o (IF IsSome(m.left)
             THEN << [call |-> "handle_lot_opened", side |-> this,
                      lot |-> Last(create_lot(acc[this], Unwrap(m.left)).open_lots),
                      list |-> "open_lots",
                      index |-> Len(acc[this].open_lots) + 1] >>
             ELSE << >>) :
         cb \in {match_lots_with_callback(acc[that], quantity)},
         m \in {match_lots_tell(acc[that], quantity)}})

LotCount(acc) ==
    Len(acc.received.open_lots) + Len(acc.received.closed_lots)
        + Len(acc.delivered.open_lots) + Len(acc.delivered.closed_lots)

CommitReceipt(quantity) ==
    /\ ~panicked
    /\ policy = "MarginManager"
    /\ margins' = [margins EXCEPT ![1]["B"] =
                      commit_receipt(begin_receipt(@, quantity), quantity)]
    /\ log' = << [call |-> "commit_receipt", quantity |-> quantity,
                  account_before |-> margins[1]["B"]] >>
               \o commit_events(margins[1]["B"], "received", "delivered", quantity)
    /\ UNCHANGED << bid, ask, orders, policy, panicked, aggressor, result, nplaced, ntransfers >>

CommitDelivery(quantity) ==
    /\ ~panicked
    /\ policy = "MarginManager"
    /\ margins' = [margins EXCEPT ![1]["B"] =
                      commit_delivery(begin_delivery(@, quantity), quantity)]
    /\ log' = << [call |-> "commit_delivery", quantity |-> quantity,
                  account_before |-> margins[1]["B"]] >>
               \o commit_events(margins[1]["B"], "delivered", "received", quantity)
    /\ UNCHANGED << bid, ask, orders, policy, panicked, aggressor, result, nplaced, ntransfers >>

NextLots ==
    \/ /\ LotCount(margins[1]["B"]) < MaxLots
       /\ \E quantity \in LotQuantities : CommitReceipt(quantity)
    \/ /\ LotCount(margins[1]["B"]) < MaxLots
       /\ \E quantity \in LotQuantities : CommitDelivery(quantity)

SpecLots == InitLedger /\ [][NextLots]_vars


\* the last step was the commit `name`
Committed(name) == log # << >> /\ log[1].call = name

\* the lots of side `that` that were open before the commit, as they are now
\* (closed by this commit, or still open)
LotsNow(before, now) ==
    SubSeq(now.closed_lots, Len(before.closed_lots) + 1, Len(now.closed_lots))
        \o now.open_lots

\* the commit of q to side `this` of account `now`, `before` being the
\* account before: the lots of the opposite side were offset from the head,
\* no lot was opened on `this` for q below their total L and the counters
\* moved as stated, and only an excess q - L opened a lot
OffsetAsStated(before, now, this, that, q) ==
    LET L == SumLeft(before[that].open_lots)
        lots == LotsNow(before[that], now[that])
        opened == Len(now[this].open_lots) - Len(before[this].open_lots)
    IN  /\ Len(lots) = Len(before[that].open_lots)
        /\ \A k \in DOMAIN lots :
              /\ lots[k].quantity_left <= before[that].open_lots[k].quantity_left
              /\ lots[k].quantity_left < before[that].open_lots[k].quantity_left =>
                     \A j \in 1..(k - 1) : lots[j].quantity_left = 0
        /\ SumLeft(lots) = L - Min(q, L)
        /\ q < L =>
              /\ opened = 0
              /\ now[that].quantity_committed = before[that].quantity_committed - q
              /\ now[this].quantity_committed = before[this].quantity_committed
        /\ opened \in {0, 1}
        /\ opened = 1 =>
              /\ q > L
              /\ Last(now[this].open_lots).quantity_orig = q - L
              /\ Last(now[this].open_lots).quantity_left = q - L
        /\ q > L => opened = 1

(* C32: lot offset on delivery.  commit_delivery(q) on an asset account     *)
(* whose open received lots total L closes those lots in FIFO order from    *)
(* the head; for q < L it opens no delivered lot, takes q from              *)
(* received.quantity_committed and leaves delivered.quantity_committed;     *)
(* only an excess q - L, when q > L, opens a new delivered lot.             *)
(* commit_receipt mirrors this against the delivered lots.                  *)
LotOffset ==
    /\ Committed("commit_delivery") =>
          OffsetAsStated(log[1].account_before, margins[1]["B"],
                         "delivered", "received", log[1].quantity)
    /\ Committed("commit_receipt") =>
          OffsetAsStated(log[1].account_before, margins[1]["B"],
                         "received", "delivered", log[1].quantity)


(* C33: a lot is closed iff its quantity_left is 0.  After every            *)
(* commit_receipt or commit_delivery every lot in open_lots of every side   *)
(* has quantity_left > 0 and every lot in closed_lots has quantity_left 0,  *)
(* also when the committed quantity equals the total of the opposite        *)
(* side's open lots.                                                        *)
LotClosedIffEmpty ==
    \A side \in AllSides :
        /\ \A k \in DOMAIN side.open_lots : side.open_lots[k].quantity_left > 0
        /\ \A k \in DOMAIN side.closed_lots : side.closed_lots[k].quantity_left = 0

\* the part of it about closed_lots alone
ClosedLotsEmpty ==
    \A side \in AllSides :
        \A k \in DOMAIN side.closed_lots : side.closed_lots[k].quantity_left = 0


\* the handler calls of the commit of the log named `name`
HandlerCalls(name) == {i \in DOMAIN log : log[i].call = name}

\* the commit of the log fired handle_lot_opened once, with the new lot, when
\* and only when it created a lot on side `this`
OpenedEventsMatch(before, now, this) ==
    LET opened == Len(now[this].open_lots) - Len(before[this].open_lots)
    IN  /\ Cardinality(HandlerCalls("handle_lot_opened")) = opened
        /\ \A i \in HandlerCalls("handle_lot_opened") :
              /\ log[i].side = this
              /\ log[i].lot = Last(now[this].open_lots)

\* the commit of the log fired handle_lot_closed once for each lot it moved
\* from open_lots to closed_lots of side `that`, and for no other lot
ClosedEventsMatch(before, now, that) ==
    LET moved == (Len(before[that].closed_lots) + 1)..Len(now[that].closed_lots)
    IN  /\ \A k \in moved :
              Cardinality({i \in HandlerCalls("handle_lot_closed") :
                              log[i].list = "closed_lots" /\ log[i].index = k}) = 1
        /\ \A i \in HandlerCalls("handle_lot_closed") :
              /\ log[i].side = that
              /\ log[i].list = "closed_lots"
              /\ log[i].index \in moved
              /\ log[i].lot = now[that].closed_lots[log[i].index]

(* C34: lot events match lot transitions.  Each commit_receipt or           *)
(* commit_delivery invokes handle_lot_closed exactly once for each lot this *)
(* commit moved from open_lots to closed_lots and for no lot an earlier     *)
(* commit closed, and handle_lot_opened exactly once, with the new lot,     *)
(* when and only when this commit created a lot.                            *)
LotEventsMatch ==
    /\ Committed("commit_delivery") =>
          /\ ClosedEventsMatch(log[1].account_before, margins[1]["B"], "received")
          /\ OpenedEventsMatch(log[1].account_before, margins[1]["B"], "delivered")
    /\ Committed("commit_receipt") =>
          /\ ClosedEventsMatch(log[1].account_before, margins[1]["B"], "delivered")
          /\ OpenedEventsMatch(log[1].account_before, margins[1]["B"], "received")

\* the part of it about handle_lot_opened alone
LotOpenedEventsMatch ==
    /\ Committed("commit_delivery") =>
          OpenedEventsMatch(log[1].account_before, margins[1]["B"], "delivered")
    /\ Committed("commit_receipt") =>
          OpenedEventsMatch(log[1].account_before, margins[1]["B"], "received")


\* the execute_orders calls of the last place_order call in which the resting
\* order belongs to the participant who placed the incoming order
SelfTrades ==
    {i \in CallsOf(log, "execute_orders") :
        log[i].book[1] = aggressor.order.participant_id}

(* C35: self-trade does not abort the engine.  When an incoming order of a  *)
(* participant crosses a resting order of the same participant,             *)
(* MarginManager::execute_orders returns Ok or Err: it does not borrow the  *)
(* participant's account mutably a second time while the first borrow is    *)
(* held, which panics.                                                      *)
SelfTradeReturns ==
    policy = "MarginManager" =>
        /\ \A i \in SelfTrades : log[i].status \in {"Ok", "Err"}
        /\ ~panicked


\* the prices at which an order rests on one side
RestingPrices(levels) == {p \in DOMAIN levels : levels[p] # << >>}

(* C36: the book is never crossed.  After every OrderBook::place_order      *)
(* call, successful or failed, when orders rest on both sides the highest   *)
(* resting Bid price is strictly less than the lowest resting Ask price.    *)
BookNotCrossed ==
    \A b \in RestingPrices(bid), a \in RestingPrices(ask) : b < a

\* orders rest on both sides after a call that filled a crossing order
BookNotCrossedWitness ==
    /\ RestingPrices(bid) # {}
    /\ RestingPrices(ask) # {}
    /\ Fills # {}


\* the sum over the accounts P of ledger ms that hold asset a of
\* received.quantity_committed - delivered.quantity_committed
RECURSIVE CommittedSum(_, _, _)
CommittedSum(ms, P, a) ==
    IF P = {} THEN 0
    ELSE LET p == CHOOSE x \in P : TRUE
         IN  (IF a \in DOMAIN ms[p]
              THEN ms[p][a].received.quantity_committed
                     - ms[p][a].delivered.quantity_committed
              ELSE 0)
             + CommittedSum(ms, P \ {p}, a)

Position(ms, a) == CommittedSum(ms, DOMAIN ms, a)

ZeroSumStep ==
    policy = "MarginManager" =>
        /\ \A i \in FillsOf(log'), a \in Assets :
              Position(log'[i].margins_after, a) = Position(log'[i].margins_before, a)
        /\ ntransfers' = ntransfers =>
              \A a \in Assets : Position(margins', a) = Position(margins, a)

(* C37: fills are zero-sum across accounts.  Every execute_orders call of   *)
(* MarginManager that returns Ok between two distinct participants leaves,  *)
(* for each asset, the sum over all accounts of received.quantity_committed *)
(* - delivered.quantity_committed unchanged; only a transfer changes it.    *)
FillsAreZeroSum == [][ZeroSumStep]_vars

\* a fill after which the participants hold opposite positions in an asset
FillsAreZeroSumWitness ==
    /\ policy = "MarginManager"
    /\ Fills # {}
    /\ \E a \in Assets, p \in DOMAIN margins :
          /\ margins[p][a].received.quantity_committed > 0
          /\ \E q \in DOMAIN margins :
                q # p /\ margins[q][a].delivered.quantity_committed > 0


(* C38: lots agree with the committed counter.  After every completed       *)
(* transfer or fill, for every account, asset and side, the sum of          *)
(* quantity_left over the side's open_lots equals its quantity_committed.   *)
LotsAgreeWithCommitted ==
    \A side \in AllSides : SumLeft(side.open_lots) = side.quantity_committed

\* a side holds two open lots, the first of them closed in part
LotsAgreeWithCommittedWitness ==
    \E side \in AllSides :
        /\ Len(side.open_lots) >= 2
        /\ side.open_lots[1].quantity_left < side.open_lots[1].quantity_orig
        /\ side.open_lots[1].quantity_left > 0


\* the asset accounts of the ledger
AssetAccounts ==
    {margins[x[1]][x[2]] :
        x \in {y \in Participants \X Assets :
                 y[1] \in DOMAIN margins /\ y[2] \in DOMAIN margins[y[1]]}}

(* C39: positions are one-sided.  After every commit_receipt or             *)
(* commit_delivery, for every account and asset at most one of              *)
(* received.quantity_committed and delivered.quantity_committed is          *)
(* non-zero.                                                                *)
OneSidedPositions ==
    \A acc \in AssetAccounts :
        acc.received.quantity_committed = 0 \/ acc.delivered.quantity_committed = 0

\* an account that was long in an asset is short in it now
OneSidedPositionsWitness ==
    \E acc \in AssetAccounts :
        /\ acc.delivered.quantity_committed > 0
        /\ acc.received.closed_lots # << >>


(* C40: nothing stays locked.  After every completed transfer call and      *)
(* every completed place_order call, whether it returned Ok or an error,    *)
(* quantity_locked is 0 on every side of every asset of every account.      *)
NothingLocked ==
    ~panicked => \A side \in AllSides : side.quantity_locked = 0

\* a call has returned after a fill and after a transfer were committed
NothingLockedWitness ==
    /\ ~panicked
    /\ policy = "MarginManager"
    /\ Fills # {}
    /\ ntransfers > 0

=========================================================================
